---------------------------- MODULE Spec2Model ----------------------------
(***************************************************************************)
(* The multi-agent ESG synthesis pipeline of backend/services:             *)
(* AgentPipeline.run sequences NewsAnalysisAgent, ModelInterpretability-   *)
(* Agent and DiscussionOrchestrator over one AgentContext; the             *)
(* orchestrator asks GroqService whether the LLM is configured.            *)
(*                                                                         *)
(* Python values whose type varies at run time are tagged records          *)
(* (Str, Text, Num, Float, None); a dict is a record whose DOMAIN is its   *)
(* key set; a formatted string is a sequence of string fragments; a call   *)
(* that may raise returns Ok(value) or Raise(exception).                   *)
(***************************************************************************)
EXTENDS Integers, Sequences, FiniteSets, TLC

(***************************************************************************)
(* Bounds of the model.                                                    *)
(***************************************************************************)
\* longest news_articles list handed to AgentPipeline.run
MaxArticles == 4

(***************************************************************************)
(* Python values.                                                          *)
(***************************************************************************)
None == [t |-> "None"]
Str(s) == [t |-> "str", s |-> s]
\* a str kept character by character (the text that keywords are searched in)
Text(chars) == [t |-> "str", chars |-> chars]
Num(n) == [t |-> "int", n |-> n]
\* a float in [0, 1] kept in basis points: Float(8500) is 0.85
Float(bp) == [t |-> "float", bp |-> bp]

Ok(v) == [ok |-> TRUE, val |-> v]
Raise(e) == [ok |-> FALSE, exc |-> e]

\* the dict {}
EmptyDict == [k \in {} |-> k]

\* dict.get(key, default)
Get(d, key, default) == IF key \in DOMAIN d THEN d[key] ELSE default

\* str(v) as an f-string field "{v}" renders it
PyFormat(v) ==
  CASE v.t = "None" -> "None"
    [] v.t = "str" -> v.s
    [] v.t = "int" -> ToString(v.n)

\* seq[:n]
Take(seq, n) == SubSeq(seq, 1, IF Len(seq) < n THEN Len(seq) ELSE n)

\* [x for x in seq if Test(x)]
RECURSIVE SelectIdx(_, _, _)
SelectIdx(seq, keep, i) ==
  IF i > Len(seq) THEN <<>>
  ELSE (IF keep[i] THEN <<seq[i]>> ELSE <<>>) \o SelectIdx(seq, keep, i + 1)

(***************************************************************************)
(* str.lower() and the substring test "kw in text".                        *)
(***************************************************************************)
UpperToLower ==
  [A |-> "a", B |-> "b", C |-> "c", D |-> "d", E |-> "e", F |-> "f", G |-> "g",
   H |-> "h", I |-> "i", J |-> "j", K |-> "k", L |-> "l", M |-> "m", N |-> "n",
   O |-> "o", P |-> "p", Q |-> "q", R |-> "r", S |-> "s", T |-> "t", U |-> "u",
   V |-> "v", W |-> "w", X |-> "x", Y |-> "y", Z |-> "z"]

lower(chars) ==
  [i \in 1..Len(chars) |->
     IF chars[i] \in DOMAIN UpperToLower THEN UpperToLower[chars[i]] ELSE chars[i]]

\* Python's "sub in s" on strings
Contains(s, sub) ==
  \E i \in 0..(Len(s) - Len(sub)) : SubSeq(s, i + 1, i + Len(sub)) = sub

(***************************************************************************)
(* NewsAnalysisAgent: the keyword lists of process.                        *)
(***************************************************************************)
environmental_keywords ==
  << <<"c","a","r","b","o","n">>,
     <<"e","m","i","s","s","i","o","n","s">>,
     <<"c","l","i","m","a","t","e">>,
     <<"r","e","n","e","w","a","b","l","e">>,
     <<"p","o","l","l","u","t","i","o","n">>,
     <<"w","a","s","t","e">> >>

social_keywords ==
  << <<"d","i","v","e","r","s","i","t","y">>,
     <<"l","a","b","o","r">>,
     <<"c","o","m","m","u","n","i","t","y">>,
     <<"s","a","f","e","t","y">>,
     <<"h","u","m","a","n"," ","r","i","g","h","t","s">>,
     <<"e","m","p","l","o","y","e","e">> >>

governance_keywords ==
  << <<"b","o","a","r","d">>,
     <<"e","t","h","i","c","s">>,
     <<"c","o","m","p","l","i","a","n","c","e">>,
     <<"t","r","a","n","s","p","a","r","e","n","c","y">>,
     <<"c","o","r","r","u","p","t","i","o","n">>,
     <<"a","u","d","i","t">> >>

controversy_keywords ==
  << <<"l","a","w","s","u","i","t">>,
     <<"s","c","a","n","d","a","l">>,
     <<"i","n","v","e","s","t","i","g","a","t","i","o","n">>,
     <<"v","i","o","l","a","t","i","o","n">>,
     <<"f","i","n","e">>,
     <<"p","e","n","a","l","t","y">> >>

\* (a.get("description") or "").lower()
DescriptionLower(a) ==
  LET d == Get(a, "description", None)
  IN  IF d.t = "None" \/ d.chars = <<>> THEN <<>> ELSE lower(d.chars)

\* any(kw in (a.get("description") or "").lower() for kw in keywords)
MatchesAny(a, keywords) ==
  \E k \in 1..Len(keywords) : Contains(DescriptionLower(a), keywords[k])

(***************************************************************************)
(* The article records the runs are given.                                 *)
(***************************************************************************)
Desc1 == <<"L","a","w","s","u","i","t"," ","o","v","e","r"," ","E","m","i","s","s","i","o","n","s">>
Desc2 == <<"R","e","f","i","n","e","d"," ","l","a","b","o","r"," ","a","u","d","i","t">>
Desc4 == <<"S","C","A","N","D","A","L">>

\* controversy ("lawsuit") and environmental ("emissions"), mixed case
Article1 == [title |-> Str("T1"), description |-> Text(Desc1)]
\* controversy by substring ("fine" in "refined"), social, governance
Article2 == [title |-> Str("T2"), description |-> Text(Desc2)]
\* a null description: matches nothing
Article3 == [title |-> Str("T3"), description |-> None]
\* a record without a title key whose description matches "scandal"
Article4 == [description |-> Text(Desc4)]

ArticleSet == {Article1, Article2, Article3, Article4}

\* a record as fetch_company_news builds it (url and published_at left out)
FetchedArticle ==
  [title |-> Str("T1"), description |-> Text(Desc1), source |-> Str("Wire"),
   sentiment_score |-> None]

\* the four keyword tests of process for every article record, computed once
MatchTable ==
  [a \in ArticleSet \cup {FetchedArticle} |->
     [env |-> MatchesAny(a, environmental_keywords),
      social |-> MatchesAny(a, social_keywords),
      gov |-> MatchesAny(a, governance_keywords),
      controversy |-> MatchesAny(a, controversy_keywords)]]

\* one keyword test of process on one article: read off the table, computed
\* for a record the table does not hold
ArticleMatches(a, kind) ==
  IF a \in DOMAIN MatchTable THEN MatchTable[a][kind]
  ELSE CASE kind = "env" -> MatchesAny(a, environmental_keywords)
         [] kind = "social" -> MatchesAny(a, social_keywords)
         [] kind = "gov" -> MatchesAny(a, governance_keywords)
         [] kind = "controversy" -> MatchesAny(a, controversy_keywords)

\* [a for a in articles if any(kw in ... for kw in <kind>_keywords)]
ArticlesMatching(articles, kind) ==
  SelectIdx(articles, [i \in 1..Len(articles) |-> ArticleMatches(articles[i], kind)], 1)

\* [a["title"] for a in arts]: KeyError when a record has no title
Titles(arts) ==
  IF \E i \in 1..Len(arts) : "title" \notin DOMAIN arts[i]
  THEN Raise("KeyError")
  ELSE Ok([i \in 1..Len(arts) |-> arts[i].title])

NewsAgentName == "ESG News Analyst"

\* mutant of ThemeEntry: the slice [:2] of the examples dropped
ThemeEntry_AllExamples(theme, arts) ==
  [theme |-> theme, count |-> Len(arts), examples |-> Titles(arts).val]

\* one entry of key_themes
ThemeEntry(theme, arts) ==
  [theme |-> theme, count |-> Len(arts), examples |-> Titles(Take(arts, 2)).val]

\* mutant of IndicatorArticles: the slice [:3] dropped
IndicatorArticles_Uncapped(controversy_articles) == controversy_articles

\* the risk_indicators slice of process: controversy_articles[:3]
IndicatorArticles(controversy_articles) == Take(controversy_articles, 3)

\* mutant of Sentiment: ">= 2" for "> 2"
Sentiment_AtLeastTwo(controversy_articles) ==
  IF controversy_articles = <<>> THEN "positive"
  ELSE IF Len(controversy_articles) >= 2 THEN "negative" ELSE "mixed"

\* "positive" if not controversy_articles else "negative" if len(...) > 2 else "mixed"
Sentiment(controversy_articles) ==
  IF controversy_articles = <<>> THEN "positive"
  ELSE IF Len(controversy_articles) > 2 THEN "negative" ELSE "mixed"

\* the dict NewsAnalysisAgent.process returns for no articles
EmptyNewsResult ==
  [agent |-> NewsAgentName,
   summary |-> <<"No recent news available for analysis.">>,
   key_themes |-> <<>>,
   sentiment |-> "neutral",
   risk_indicators |-> <<>>]

\* NewsAnalysisAgent.process
NewsAnalysisAgent_process(context) ==
  LET articles == context.news_articles
      env_articles == ArticlesMatching(articles, "env")
      social_articles == ArticlesMatching(articles, "social")
      gov_articles == ArticlesMatching(articles, "gov")
      controversy_articles == ArticlesMatching(articles, "controversy")
      env_titles == Titles(Take(env_articles, 2))
      social_titles == Titles(Take(social_articles, 2))
      gov_titles == Titles(Take(gov_articles, 2))
      indicator_titles == Titles(IndicatorArticles(controversy_articles))
      key_themes ==
        (IF env_articles # <<>>
           THEN <<ThemeEntry("Environmental", env_articles)>> ELSE <<>>)
        \o (IF social_articles # <<>>
           THEN <<ThemeEntry("Social", social_articles)>> ELSE <<>>)
        \o (IF gov_articles # <<>>
           THEN <<ThemeEntry("Governance", gov_articles)>> ELSE <<>>)
      sentiment == Sentiment(controversy_articles)
      risk_indicators ==
        [i \in 1..Len(indicator_titles.val) |->
           <<"Controversy detected: ", PyFormat(indicator_titles.val[i])>>]
  IN  IF articles = <<>> THEN Ok(EmptyNewsResult)
      ELSE IF ~env_titles.ok THEN env_titles
      ELSE IF ~social_titles.ok THEN social_titles
      ELSE IF ~gov_titles.ok THEN gov_titles
      ELSE IF ~indicator_titles.ok THEN indicator_titles
      ELSE Ok([agent |-> NewsAgentName,
               summary |-> <<"Analyzed ", ToString(Len(articles)),
                             " ESG-related articles for ", context.company_name,
                             ". Dominant theme: ",
                             IF key_themes # <<>> THEN key_themes[1].theme ELSE "None",
                             ". Sentiment: ", sentiment, ".">>,
               key_themes |-> key_themes,
               sentiment |-> sentiment,
               risk_indicators |-> risk_indicators,
               total_articles |-> Len(articles),
               controversy_count |-> Len(controversy_articles)])


(***************************************************************************)
(* Percent formatting of a confidence value.                               *)
(***************************************************************************)
TwoDigits(n) == IF n < 10 THEN "0" \o ToString(n) ELSE ToString(n)

\* the value of a number in basis points
BasisPoints(x) == IF x.t = "float" THEN x.bp ELSE x.n * 10000

\* f"{x:.2%}": TypeError for None, ValueError for a str
Format_2pct(x) ==
  CASE x.t = "None" -> Raise("TypeError")
    [] x.t = "str" -> Raise("ValueError")
    [] OTHER ->
         LET bp == BasisPoints(x)
         IN  Ok(ToString(bp \div 100) \o "." \o TwoDigits(bp % 100) \o "%")

\* f"{x:.1%}": rounds to a tenth of a percent (half to even)
Format_1pct(x) ==
  CASE x.t = "None" -> Raise("TypeError")
    [] x.t = "str" -> Raise("ValueError")
    [] OTHER ->
         LET bp == BasisPoints(x)
             q == bp \div 10
             r == bp % 10
             tenths == IF r > 5 \/ (r = 5 /\ q % 2 = 1) THEN q + 1 ELSE q
         IN  Ok(ToString(tenths \div 10) \o "." \o ToString(tenths % 10) \o "%")

(***************************************************************************)
(* ModelInterpretabilityAgent.                                             *)
(***************************************************************************)
ModelAgentName == "Model Explainer"

\* the agent after _load_model found no checkpoint file
NoModelAgent ==
  [model |-> FALSE, scaler |-> FALSE, feature_columns |-> <<>>,
   label_mapping_inv |-> <<>>, metadata |-> None]

\* the agent after _load_model loaded checkpoint and scaler
LoadedModelAgent ==
  [model |-> TRUE, scaler |-> TRUE,
   feature_columns |-> <<"Total ESG Risk score", "Controversy Score">>,
   label_mapping_inv |-> <<"Low", "Medium", "High">>,
   metadata |-> [test_accuracy |-> Float(9100)]]

\* the agent after _load_model when the checkpoint is there but the scaler
\* file is not (lines 137-141)
ScalerMissingAgent ==
  [model |-> TRUE, scaler |-> FALSE,
   feature_columns |-> <<"Total ESG Risk score", "Controversy Score">>,
   label_mapping_inv |-> <<"Low", "Medium", "High">>,
   metadata |-> [test_accuracy |-> Float(9100)]]

\* a numpy array of class probabilities (basis points)
Ndarray(p) == [t |-> "ndarray", p |-> p]

\* bool(x) of "... if probabilities else None": ambiguous for an array of
\* more than one element
Truthy(x) ==
  CASE x.t = "None" -> Ok(FALSE)
    [] x.t = "ndarray" ->
         IF Len(x.p) > 1 THEN Raise("ValueError")
         ELSE Ok(Len(x.p) = 1 /\ x.p[1] # 0)

\* torch.argmax: the (first) index of the largest entry, counted from 0
ArgMax(p) ==
  (CHOOSE i \in 1..Len(p) :
     /\ \A j \in 1..Len(p) : p[j] <= p[i]
     /\ \A j \in 1..(i - 1) : p[j] < p[i]) - 1

\* label_mapping_inv.get(i, default)
LabelOf(label_mapping_inv, i, default) ==
  IF i + 1 \in DOMAIN label_mapping_inv THEN label_mapping_inv[i + 1] ELSE default

\* the feature vector of _run_inference: declared order, missing or null as 0
FeatureValues(agent, company_data) ==
  [k \in 1..Len(agent.feature_columns) |->
     LET val == Get(company_data, agent.feature_columns[k], Num(0))
     IN  IF val.t = "None" THEN 0 ELSE val.n]

\* mutant of _run_inference: the except branch leaves the confidence unset
_run_inference_NoConfidence(agent, company_data, outcome) ==
  IF outcome.kind \in {"exception", "shape_mismatch"}
  THEN <<Str("Unknown"), None, None>>
  ELSE LET probabilities == outcome.probs
           predicted_class == ArgMax(probabilities)
           confidence == probabilities[predicted_class + 1]
       IN  <<Str(LabelOf(agent.label_mapping_inv, predicted_class, "Unknown")),
             Float(confidence), Ndarray(probabilities)>>

\* mutant of _run_inference: the except branch labels the result "Error"
_run_inference_ErrorLabel(agent, company_data, outcome) ==
  IF outcome.kind \in {"exception", "shape_mismatch"}
  THEN <<Str("Error"), Float(0), None>>
  ELSE LET probabilities == outcome.probs
           predicted_class == ArgMax(probabilities)
           confidence == probabilities[predicted_class + 1]
       IN  <<Str(LabelOf(agent.label_mapping_inv, predicted_class, "Unknown")),
             Float(confidence), Ndarray(probabilities)>>

\* ModelInterpretabilityAgent._run_inference; outcome is what scaler and
\* network do with the feature vector: class probabilities, an exception, or
\* the ValueError / RuntimeError of a vector whose length they do not accept;
\* "except Exception" takes both kinds of exception
_run_inference(agent, company_data, outcome) ==
  IF outcome.kind \in {"exception", "shape_mismatch"}
  THEN <<Str("Unknown"), Float(0), None>>
  ELSE LET probabilities == outcome.probs
           predicted_class == ArgMax(probabilities)
           confidence == probabilities[predicted_class + 1]
       IN  <<Str(LabelOf(agent.label_mapping_inv, predicted_class, "Unknown")),
             Float(confidence), Ndarray(probabilities)>>

\* x > bound on a score: TypeError when the score is None
GreaterThan(x, bound) ==
  IF x.t = "None" THEN Raise("TypeError") ELSE Ok(x.n > bound)

\* ModelInterpretabilityAgent._analyze_features
_analyze_features(company_data) ==
  LET total == Get(company_data, "Total ESG Risk score", None)
      env == Get(company_data, "Environment Risk Score", None)
      contro == Get(company_data, "Controversy Score", None)
      has_total == "Total ESG Risk score" \in DOMAIN company_data
      has_env == "Environment Risk Score" \in DOMAIN company_data
      has_contro == "Controversy Score" \in DOMAIN company_data
      f_total ==
        [feature |-> "Total ESG Risk", value |-> total,
         impact |-> IF GreaterThan(total, 30).val THEN "High"
                    ELSE IF GreaterThan(total, 20).val THEN "Medium" ELSE "Low"]
      f_env ==
        [feature |-> "Environmental Risk", value |-> env,
         impact |-> IF GreaterThan(env, 10).val THEN "High" ELSE "Medium"]
      f_contro ==
        [feature |-> "Controversy Level", value |-> contro,
         impact |-> IF GreaterThan(contro, 3).val THEN "High" ELSE "Low"]
  IN  IF \/ has_total /\ ~GreaterThan(total, 30).ok
         \/ has_env /\ ~GreaterThan(env, 10).ok
         \/ has_contro /\ ~GreaterThan(contro, 3).ok
      THEN Raise("TypeError")
      ELSE Ok((IF has_total THEN <<f_total>> ELSE <<>>)
              \o (IF has_env THEN <<f_env>> ELSE <<>>)
              \o (IF has_contro THEN <<f_contro>> ELSE <<>>))

\* ModelInterpretabilityAgent._generate_explanation
_generate_explanation(risk_level, confidence, features, company) ==
  LET pct == Format_1pct(confidence)
      bp == BasisPoints(confidence)
  IN  IF ~pct.ok THEN pct
      ELSE Ok(<<"The model predicts ", company, " has '", PyFormat(risk_level),
                "' ESG risk with ", pct.val, " confidence. ">>
              \o (IF features # <<>>
                  THEN <<"Primary factor: ", features[1].feature, " (",
                         features[1].impact, " impact). ">>
                  ELSE <<>>)
              \o (IF bp > 8000
                  THEN <<"High confidence in this prediction based on historical patterns.">>
                  ELSE IF bp < 6000
                  THEN <<"Lower confidence suggests borderline classification or limited data.">>
                  ELSE <<>>))

\* mutant of ModelAvailable: only the network is looked at
ModelAvailable_ModelOnly(agent) == agent.model

\* "if self.model and self.scaler and self.feature_columns" of process
ModelAvailable(agent) ==
  agent.model /\ agent.scaler /\ agent.feature_columns # <<>>

\* ModelInterpretabilityAgent.process
ModelInterpretabilityAgent_process(agent, context, outcome) ==
  LET company_data == context.company_data
      prediction == context.model_prediction
      inferred ==
        IF ModelAvailable(agent)
        THEN _run_inference(agent, company_data, outcome)
        ELSE <<Get(prediction, "predicted_class", Str("Unknown")),
               Get(prediction, "confidence", Float(0)), None>>
      risk_level == inferred[1]
      confidence == inferred[2]
      probabilities == inferred[3]
      feature_importance == _analyze_features(company_data)
      explanation ==
        _generate_explanation(risk_level, confidence, feature_importance.val,
                              context.company_name)
      conf_text == Format_2pct(confidence)
      has_probs == Truthy(probabilities)
      accuracy ==
        IF agent.metadata = None THEN "N/A"
        ELSE Format_2pct(Get(agent.metadata, "test_accuracy", Num(0))).val
  IN  IF ~feature_importance.ok THEN feature_importance
      ELSE IF ~explanation.ok THEN explanation
      ELSE IF ~conf_text.ok THEN conf_text
      ELSE IF ~has_probs.ok THEN has_probs
      ELSE Ok([agent |-> ModelAgentName,
               risk_level |-> risk_level,
               confidence |-> Str(conf_text.val),
               probabilities |->
                 IF has_probs.val
                 THEN [i \in 1..Len(probabilities.p) |->
                         <<LabelOf(agent.label_mapping_inv, i - 1,
                                   "Class_" \o ToString(i - 1)),
                           Format_2pct(Float(probabilities.p[i])).val>>]
                 ELSE None,
               explanation |-> explanation.val,
               key_factors |-> Take(feature_importance.val, 5),
               model_accuracy |-> accuracy])


(***************************************************************************)
(* GroqService.                                                            *)
(***************************************************************************)
PlaceholderKey == "your_groq_api_key_here"

\* mutant of is_available: the placeholder key counts as a key
is_available_EmptyOnly(key) == key # ""

\* GroqService.is_available
is_available(key) == key # "" /\ key # PlaceholderKey

\* GroqService._fallback_synthesis
GroqService_fallback_synthesis(news_analysis, model_prediction, company_name) ==
  LET risk_level == Get(model_prediction, "risk_level", Str("Unknown"))
      confidence == Get(model_prediction, "confidence", Num(0))
      pct == Format_1pct(confidence)
  IN  IF ~pct.ok THEN pct
      ELSE Ok([company |-> company_name,
               synthesis |->
                 <<"**", company_name, " ESG Risk Assessment** Model Prediction: ",
                   PyFormat(risk_level), " risk (confidence: ", pct.val,
                   ") News Insights: ">>
                 \o Get(news_analysis, "summary", <<"No recent news available">>)
                 \o <<" Recommendation: ",
                      IF risk_level = Str("High")
                      THEN "Monitor closely due to elevated risk"
                      ELSE "Continue regular monitoring">>,
               news_summary |-> Get(news_analysis, "summary", None),
               predicted_risk |-> risk_level,
               confidence |-> confidence,
               note |-> "Using fallback synthesis (Groq API not configured)"])

\* the prompt of synthesize_agent_discussion: the confidence is formatted
\* with .2% before the request is built
SynthesisPrompt(news_analysis, model_prediction, company_name) ==
  LET pct == Format_2pct(Get(model_prediction, "confidence", Num(0)))
  IN  IF ~pct.ok THEN pct
      ELSE Ok(<<"Company: ", company_name, " News Analysis: ">>
              \o Get(news_analysis, "summary", <<"No news analysis available">>)
              \o <<" Model Prediction: - Risk Level: ",
                   PyFormat(Get(model_prediction, "risk_level", Str("Unknown"))),
                   " - Confidence: ", pct.val>>)

\* what the completion request does
LLMOutcomes == {"ok200", "malformed200", "non200", "timeout"}

\* GroqService.synthesize_agent_discussion; llm is the outcome of the request
synthesize_agent_discussion(key, news_analysis, model_prediction, company_name, llm) ==
  LET prompt == SynthesisPrompt(news_analysis, model_prediction, company_name)
  IN  IF ~is_available(key)
      THEN GroqService_fallback_synthesis(news_analysis, model_prediction, company_name)
      ELSE IF ~prompt.ok THEN prompt
      ELSE IF llm = "ok200"
      THEN Ok([company |-> company_name,
               synthesis |-> <<"completion of: ">> \o prompt.val,
               news_summary |-> Get(news_analysis, "summary", None),
               predicted_risk |-> Get(model_prediction, "risk_level", None),
               confidence |-> Get(model_prediction, "confidence", None),
               model |-> "llama-3.3-70b-versatile"])
      ELSE GroqService_fallback_synthesis(news_analysis, model_prediction, company_name)

(***************************************************************************)
(* DiscussionOrchestrator.                                                 *)
(***************************************************************************)
OrchestratorName == "ESG Insight Orchestrator"

\* risk_sentiment_map.get(model_risk, "neutral")
ExpectedSentiment(model_risk) ==
  CASE model_risk = Str("Low") -> "positive"
    [] model_risk = Str("Medium") -> "mixed"
    [] model_risk = Str("High") -> "negative"
    [] OTHER -> "neutral"

\* mutant of _check_alignment: the mixed test before the equality test
_check_alignment_MixedFirst(news_sentiment, model_risk) ==
  IF news_sentiment = "mixed" THEN "Partial alignment"
  ELSE IF news_sentiment = ExpectedSentiment(model_risk) THEN "Strong alignment"
  ELSE "Divergent signals"

\* DiscussionOrchestrator._check_alignment
_check_alignment(news_sentiment, model_risk) ==
  IF news_sentiment = ExpectedSentiment(model_risk) THEN "Strong alignment"
  ELSE IF news_sentiment = "mixed" THEN "Partial alignment"
  ELSE "Divergent signals"

\* mutant of _generate_recommendations: "elif" for the second and third "if"
_generate_recommendations_Exclusive(sentiment, risk, indicators, alignment) ==
  IF risk = Str("High") \/ sentiment = "negative"
  THEN <<"Conduct detailed due diligence on recent controversies",
         "Monitor regulatory compliance status">>
  ELSE IF alignment = "Divergent signals"
  THEN <<"Investigate discrepancy between news sentiment and model prediction",
         "Review recent events not captured in training data">>
  ELSE IF indicators # <<>>
  THEN <<"Address " \o ToString(Len(indicators))
         \o " identified risk indicators immediately">>
  ELSE <<"Maintain current ESG monitoring practices",
         "Continue tracking sustainability metrics quarterly">>

\* DiscussionOrchestrator._generate_recommendations
_generate_recommendations(sentiment, risk, indicators, alignment) ==
  LET first ==
        (IF risk = Str("High") \/ sentiment = "negative"
         THEN <<"Conduct detailed due diligence on recent controversies",
                "Monitor regulatory compliance status">>
         ELSE <<>>)
        \o (IF alignment = "Divergent signals"
            THEN <<"Investigate discrepancy between news sentiment and model prediction",
                   "Review recent events not captured in training data">>
            ELSE <<>>)
        \o (IF indicators # <<>>
            THEN <<"Address " \o ToString(Len(indicators))
                   \o " identified risk indicators immediately">>
            ELSE <<>>)
  IN  IF first = <<>>
      THEN <<"Maintain current ESG monitoring practices",
             "Continue tracking sustainability metrics quarterly">>
      ELSE first

\* the "Key ESG Themes" lines of _synthesize_insights
RECURSIVE ThemeLines(_)
ThemeLines(themes) ==
  IF themes = <<>> THEN <<>>
  ELSE <<"- ", themes[1].theme, ": ", ToString(themes[1].count), " mentions ">>
       \o ThemeLines(Tail(themes))

\* DiscussionOrchestrator._synthesize_insights
_synthesize_insights(company, news, model, alignment) ==
  <<"**", company, " ESG Analysis Summary:** Model Assessment: ",
    PyFormat(Get(model, "risk_level", Str("N/A"))), " risk (",
    PyFormat(Get(model, "confidence", Str("N/A"))), " confidence) News Sentiment: ",
    Get(news, "sentiment", "N/A"), " based on ",
    ToString(Get(news, "total_articles", 0)), " articles News-Model Alignment: ",
    alignment>>
  \o (IF Get(news, "key_themes", <<>>) # <<>>
      THEN <<" Key ESG Themes: ">> \o ThemeLines(Take(Get(news, "key_themes", <<>>), 3))
      ELSE <<>>)

\* mutant of _assess_overall_risk: "or" for "and" in the first test
_assess_overall_risk_Or(sentiment, model_risk, alignment) ==
  IF sentiment = "negative" \/ model_risk = Str("High")
  THEN "Critical: High risk confirmed by both model and news"
  ELSE IF alignment = "Divergent signals"
  THEN "Uncertain: Mixed signals require further investigation"
  ELSE "Moderate: Standard monitoring recommended"

\* DiscussionOrchestrator._assess_overall_risk
_assess_overall_risk(sentiment, model_risk, alignment) ==
  IF sentiment = "negative" /\ model_risk = Str("High")
  THEN "Critical: High risk confirmed by both model and news"
  ELSE IF sentiment = "negative" \/ model_risk = Str("High")
  THEN "Elevated: Significant risk indicators present"
  ELSE IF alignment = "Divergent signals"
  THEN "Uncertain: Mixed signals require further investigation"
  ELSE "Moderate: Standard monitoring recommended"

\* the model_prediction dict _groq_synthesis hands to the GroqService
GroqModelPrediction(model_analysis) ==
  [risk_level |-> Get(model_analysis, "risk_level", Str("Unknown")),
   confidence |-> Get(model_analysis, "confidence", Str("0%"))]

\* DiscussionOrchestrator._groq_synthesis
_groq_synthesis(key, context, news_analysis, model_analysis, alignment, llm) ==
  LET model_prediction == GroqModelPrediction(model_analysis)
      groq_result ==
        synthesize_agent_discussion(key, news_analysis, model_prediction,
                                    context.company_name, llm)
      sentiment == Get(news_analysis, "sentiment", "neutral")
      risk == Get(model_analysis, "risk_level", Str("Unknown"))
  IN  IF ~groq_result.ok THEN groq_result
      ELSE Ok([agent |-> OrchestratorName,
               synthesis |-> Get(groq_result.val, "synthesis", <<>>),
               news_model_alignment |-> alignment,
               recommendations |->
                 _generate_recommendations(sentiment, risk,
                   Get(news_analysis, "risk_indicators", <<>>), alignment),
               overall_risk_assessment |->
                 _assess_overall_risk(sentiment, risk, alignment),
               powered_by |-> "Groq LLM (llama-3.1-70b)"])

\* DiscussionOrchestrator._fallback_synthesis
_fallback_synthesis(context, news_analysis, model_analysis, alignment) ==
  LET news_sentiment == Get(news_analysis, "sentiment", "neutral")
      model_risk == Get(model_analysis, "risk_level", Str("Unknown"))
      risk_indicators == Get(news_analysis, "risk_indicators", <<>>)
  IN  Ok([agent |-> OrchestratorName,
          synthesis |->
            _synthesize_insights(context.company_name, news_analysis,
                                 model_analysis, alignment),
          news_model_alignment |-> alignment,
          recommendations |->
            _generate_recommendations(news_sentiment, model_risk,
                                      risk_indicators, alignment),
          overall_risk_assessment |->
            _assess_overall_risk(news_sentiment, model_risk, alignment),
          note |-> "Using rule-based synthesis (Groq API not configured)"])

\* conversation_history[-2] if len(...) >= 2 else {}
NewsEntry(history) ==
  IF Len(history) >= 2 THEN history[Len(history) - 1] ELSE EmptyDict

\* conversation_history[-1] if conversation_history else {}
ModelEntry(history) ==
  IF history # <<>> THEN history[Len(history)] ELSE EmptyDict

\* DiscussionOrchestrator.process
DiscussionOrchestrator_process(key, context, llm) ==
  LET news_analysis == NewsEntry(context.conversation_history)
      model_analysis == ModelEntry(context.conversation_history)
      news_sentiment == Get(news_analysis, "sentiment", "neutral")
      model_risk == Get(model_analysis, "risk_level", Str("Unknown"))
      alignment == _check_alignment(news_sentiment, model_risk)
  IN  IF is_available(key)
      THEN _groq_synthesis(key, context, news_analysis, model_analysis, alignment, llm)
      ELSE _fallback_synthesis(context, news_analysis, model_analysis, alignment)

\* the completion requests (client.post) one call of process sends: one when
\* the provider is configured and the prompt could be built, else none
LLMRequests(key, context) ==
  IF /\ is_available(key)
     /\ SynthesisPrompt(NewsEntry(context.conversation_history),
                        GroqModelPrediction(ModelEntry(context.conversation_history)),
                        context.company_name).ok
  THEN 1 ELSE 0


(***************************************************************************)
(* The arguments the runs are given and what the collaborators may do.     *)
(***************************************************************************)
\* the company_data of tests/test_agents.py (display-cased keys)
TestCompanyData ==
  "Name" :> Str("Test Company") @@ "Total ESG Risk score" :> Num(25)
  @@ "Environment Risk Score" :> Num(8) @@ "Social Risk Score" :> Num(10)
  @@ "Governance Risk Score" :> Num(7) @@ "Controversy Score" :> Num(2)
  @@ "ESG Risk Level" :> Str("Medium")

\* a row of analyze_company whose score columns are NULL
NullRowData ==
  "Name" :> Str("Null Corp") @@ "Total ESG Risk score" :> None
  @@ "Environment Risk Score" :> None @@ "Social Risk Score" :> None
  @@ "Governance Risk Score" :> None @@ "Controversy Score" :> None
  @@ "ESG Risk Level" :> None

\* the snake_case company_data of the specification's scenario A
SnakeCaseData ==
  [name |-> Str("Snake Inc"), environment_risk_score |-> Num(8),
   social_risk_score |-> Num(10), governance_risk_score |-> Num(7),
   controversy_score |-> Num(2), total_esg_risk_score |-> Num(25)]

\* (company_name, company_data) pairs
CompanyInputs ==
  {<<"Test Company", TestCompanyData>>, <<"Null Corp", NullRowData>>,
   <<"Snake Inc", SnakeCaseData>>}

ModelPredictions ==
  {EmptyDict,
   [predicted_class |-> Str("Low"), confidence |-> Float(15000)],
   [predicted_class |-> Str("Medium")],
   [predicted_class |-> Str("High"), confidence |-> Float(8500)]}

\* every news_articles list of at most MaxArticles records
NewsLists == UNION {[1..n -> ArticleSet] : n \in 0..MaxArticles}

\* what scaler.transform and the network do inside _run_inference
InferenceOutcomes ==
  {[kind |-> "exception"],
   [kind |-> "shape_mismatch"],
   [kind |-> "probs", probs |-> <<1000, 2000, 7000>>],
   [kind |-> "probs", probs |-> <<5500, 3000, 1500>>]}

ApiKeys == {"", PlaceholderKey, "gsk_live_key"}

ModelAgents == {NoModelAgent, ScalerMissingAgent, LoadedModelAgent}

(***************************************************************************)
(* State.                                                                  *)
(***************************************************************************)
VARIABLES
  api_key,        \* groq_service.api_key
  model_agent,    \* agent_pipeline.model_agent after _load_model
  pc,             \* where the current call of run stands
  context,        \* the AgentContext of the current call
  news_result,    \* local news_result of run
  model_result,   \* local model_result of run
  final_result,   \* local final_result of run
  report,         \* the dict run returned
  raised,         \* the exception that left run, "" for none
  calls,          \* history: the stages invoked in this call, in order
  returned,       \* history: the stages that returned in this call, in order
  prev,           \* history: the report of the previous call with the same arguments
  repeat,         \* history: this call repeats the arguments of the previous one
  inference,      \* history: what inference did in this call, "none" if not run
  llm_outcome,    \* history: what the provider answers in this call, "none" if unconfigured
  llm_requests,   \* history: the completion requests sent in this call
  args,           \* history: the arguments run was called with
  news_api_key,   \* news_service.news_api_key
  elapsed,        \* time.time() - news_service.last_request_time, in seconds,
                  \* counted up to min_request_interval
  attempt,        \* the loop variable of each fetch_company_news call
  sleeping,       \* the seconds each fetch_company_news call still sleeps
  spacing         \* history: the seconds between the latest HTTP request of the
                  \* NewsService and the one before, counted up to min_request_interval

vars ==
  <<api_key, model_agent, pc, context, news_result, model_result, final_result,
    report, raised, calls, returned, prev, repeat, inference, llm_outcome,
    llm_requests, args, news_api_key, elapsed, attempt, sleeping, spacing>>

\* the state of the NewsService and of its calls
news_vars == <<news_api_key, elapsed, attempt, sleeping, spacing>>

\* the NewsService with no call of it under way
NewsServiceUnused ==
  /\ news_api_key = ""
  /\ elapsed = 0
  /\ attempt = <<>>
  /\ sleeping = <<>>
  /\ spacing = 0

\* no value yet
Nil == [nil |-> TRUE]

\* mutant of AgentContext: the context of the previous call is reused and its
\* news_articles list extended
AgentContext_Accumulating(company_name, company_data, news_articles, model_prediction) ==
  [company_name |-> company_name,
   company_data |-> company_data,
   news_articles |->
     IF context = Nil THEN news_articles ELSE context.news_articles \o news_articles,
   model_prediction |-> model_prediction,
   conversation_history |-> <<>>]

\* AgentContext(...) as run constructs it
AgentContext(company_name, company_data, news_articles, model_prediction) ==
  [company_name |-> company_name,
   company_data |-> company_data,
   news_articles |-> news_articles,
   model_prediction |-> model_prediction,
   conversation_history |-> <<>>]

\* context.conversation_history.append(result)
AppendHistory(ctx, result) ==
  [ctx EXCEPT !.conversation_history = Append(@, result)]

\* mutant of FinalReport: the two named stage results exchanged
FinalReport_SwappedAgents(company_name, news, model, final, ctx) ==
  [company |-> company_name,
   timestamp |-> "now",
   agents |-> [news_analysis |-> model,
               model_interpretation |-> news,
               synthesis |-> final],
   conversation_log |-> ctx.conversation_history]

\* the dict run returns
FinalReport(company_name, news, model, final, ctx) ==
  [company |-> company_name,
   timestamp |-> "now",
   agents |-> [news_analysis |-> news,
               model_interpretation |-> model,
               synthesis |-> final],
   conversation_log |-> ctx.conversation_history]

Init ==
  /\ api_key \in ApiKeys
  /\ model_agent \in ModelAgents
  /\ pc = "Idle"
  /\ context = Nil
  /\ news_result = Nil
  /\ model_result = Nil
  /\ final_result = Nil
  /\ report = Nil
  /\ raised = ""
  /\ calls = <<>>
  /\ returned = <<>>
  /\ prev = Nil
  /\ repeat = FALSE
  /\ inference = ""
  /\ llm_outcome = ""
  /\ llm_requests = 0
  /\ args = Nil
  /\ NewsServiceUnused

\* the locals of a call that has just begun
BeginCall(ctx) ==
  /\ pc' = "NotStarted"
  /\ context' = ctx
  /\ news_result' = Nil
  /\ model_result' = Nil
  /\ final_result' = Nil
  /\ report' = Nil
  /\ raised' = ""
  /\ calls' = <<>>
  /\ returned' = <<>>
  /\ inference' = ""
  /\ llm_outcome' = ""
  /\ llm_requests' = 0
  /\ args' = [company_name |-> ctx.company_name, company_data |-> ctx.company_data,
              news_articles |-> ctx.news_articles,
              model_prediction |-> ctx.model_prediction]

\* AgentPipeline.run is called: lines 420-426
Call ==
  /\ pc = "Idle"
  /\ \E company \in CompanyInputs, news \in NewsLists, prediction \in ModelPredictions :
       BeginCall(AgentContext(company[1], company[2], news, prediction))
  /\ prev' = Nil
  /\ repeat' = FALSE
  /\ UNCHANGED <<news_vars, api_key, model_agent>>

\* run is called again with the arguments of the call that has just returned
CallAgain ==
  /\ pc = "Done"
  /\ BeginCall(AgentContext(context.company_name, context.company_data,
                            context.news_articles, context.model_prediction))
  /\ prev' = report
  /\ repeat' = TRUE
  /\ UNCHANGED <<news_vars, api_key, model_agent>>

\* the caller drops what the ended call left
Forget ==
  /\ pc \in {"Done", "Raised"}
  /\ pc' = "Idle"
  /\ context' = Nil
  /\ news_result' = Nil
  /\ model_result' = Nil
  /\ final_result' = Nil
  /\ report' = Nil
  /\ raised' = ""
  /\ calls' = <<>>
  /\ returned' = <<>>
  /\ prev' = Nil
  /\ repeat' = FALSE
  /\ inference' = ""
  /\ llm_outcome' = ""
  /\ llm_requests' = 0
  /\ args' = Nil
  /\ UNCHANGED <<news_vars, api_key, model_agent>>

\* the exception of a stage leaves run
Propagate(exc) ==
  /\ pc' = "Raised"
  /\ raised' = exc

\* run, lines 428-429
NewsStage ==
  /\ pc = "NotStarted"
  /\ calls' = Append(calls, "news_analysis")
  /\ LET r == NewsAnalysisAgent_process(context)
     IN  IF r.ok
         THEN /\ news_result' = r.val
              /\ context' = AppendHistory(context, r.val)
              /\ returned' = Append(returned, "news_analysis")
              /\ pc' = "NewsAnalyzed"
              /\ UNCHANGED raised
         ELSE /\ Propagate(r.exc)
              /\ UNCHANGED <<news_result, context, returned>>
  /\ UNCHANGED <<news_vars, api_key, model_agent, model_result, final_result, report, prev, repeat,
                 inference, llm_outcome, llm_requests, args>>

\* run, lines 431-432
ModelStage ==
  /\ pc = "NewsAnalyzed"
  /\ calls' = Append(calls, "model_interpretation")
  /\ \E outcome \in InferenceOutcomes :
       LET r == ModelInterpretabilityAgent_process(model_agent, context, outcome)
       IN  /\ inference' = IF ModelAvailable(model_agent) THEN outcome.kind ELSE "none"
           /\ IF r.ok
              THEN /\ model_result' = r.val
                   /\ context' = AppendHistory(context, r.val)
                   /\ returned' = Append(returned, "model_interpretation")
                   /\ pc' = "Interpreted"
                   /\ UNCHANGED raised
              ELSE /\ Propagate(r.exc)
                   /\ UNCHANGED <<model_result, context, returned>>
  /\ UNCHANGED <<news_vars, api_key, model_agent, news_result, final_result, report, prev, repeat,
                 llm_outcome, llm_requests, args>>

\* run, line 434
SynthesisStage ==
  /\ pc = "Interpreted"
  /\ calls' = Append(calls, "synthesis")
  /\ \E llm \in LLMOutcomes :
       LET r == DiscussionOrchestrator_process(api_key, context, llm)
       IN  /\ llm_outcome' = IF is_available(api_key) THEN llm ELSE "none"
           /\ IF r.ok
              THEN /\ final_result' = r.val
                   /\ returned' = Append(returned, "synthesis")
                   /\ pc' = "Synthesized"
                   /\ UNCHANGED raised
              ELSE /\ Propagate(r.exc)
                   /\ UNCHANGED <<final_result, returned>>
  /\ llm_requests' = LLMRequests(api_key, context)
  /\ UNCHANGED <<news_vars, api_key, model_agent, context, news_result, model_result, report,
                 prev, repeat, inference, args>>

\* run, lines 436-445
Return ==
  /\ pc = "Synthesized"
  /\ report' = FinalReport(context.company_name, news_result, model_result,
                           final_result, context)
  /\ pc' = "Done"
  /\ UNCHANGED <<news_vars, api_key, model_agent, context, news_result, model_result,
                 final_result, raised, calls, returned, prev, repeat, inference,
                 llm_outcome, llm_requests, args>>

Next ==
  \/ Call
  \/ CallAgain
  \/ Forget
  \/ NewsStage
  \/ ModelStage
  \/ SynthesisStage
  \/ Return

Spec == Init /\ [][Next]_vars


(***************************************************************************)
(* Two interleaved calls of run on the one agent_pipeline.                 *)
(*                                                                         *)
(* The variables of a call (pc, context, news_result, model_result,        *)
(* final_result, report, raised, calls, args) hold one value per run here; *)
(* api_key and model_agent stay what the shared pipeline and GroqService   *)
(* hold.  A run may be suspended at each await of run (lines 428, 431,     *)
(* 434) and its task cancelled there.                                      *)
(***************************************************************************)
Runs == {1, 2}

\* arguments of the kind the single calls are given: a run that completes
\* with news, one with an article without keywords, one whose NULL scores
\* stop the interpretation stage, one whose untitled article stops the news
\* stage
TwoRunArguments ==
  {[company_name |-> "Test Company", company_data |-> TestCompanyData,
    news_articles |-> <<Article1, Article2>>,
    model_prediction |-> [predicted_class |-> Str("Medium")]],
   [company_name |-> "Snake Inc", company_data |-> SnakeCaseData,
    news_articles |-> <<Article3>>,
    model_prediction |-> [predicted_class |-> Str("High"), confidence |-> Float(8500)]],
   [company_name |-> "Null Corp", company_data |-> NullRowData,
    news_articles |-> <<>>,
    model_prediction |-> EmptyDict],
   [company_name |-> "Test Company", company_data |-> TestCompanyData,
    news_articles |-> <<Article4>>,
    model_prediction |-> EmptyDict]}

\* mutant of RunContext: one context kept on the pipeline, that of run 1
RunContext_Shared(r) == IF context[1] # Nil THEN context[1] ELSE context[r]

\* the context a run works on: the local variable of its own call (line 420)
RunContext(r) == context[r]

InitTwoRuns ==
  /\ api_key \in ApiKeys
  /\ model_agent \in ModelAgents
  /\ pc = [r \in Runs |-> "Idle"]
  /\ context = [r \in Runs |-> Nil]
  /\ news_result = [r \in Runs |-> Nil]
  /\ model_result = [r \in Runs |-> Nil]
  /\ final_result = [r \in Runs |-> Nil]
  /\ report = [r \in Runs |-> Nil]
  /\ raised = [r \in Runs |-> ""]
  /\ calls = [r \in Runs |-> <<>>]
  /\ args = [r \in Runs |-> Nil]
  /\ returned = <<>>
  /\ prev = Nil
  /\ repeat = FALSE
  /\ inference = ""
  /\ llm_outcome = ""
  /\ llm_requests = 0
  /\ NewsServiceUnused

\* what the two-run actions never touch
TwoRunsFixed ==
  <<api_key, model_agent, returned, prev, repeat, inference, llm_outcome, llm_requests,
    news_vars>>

\* run r is called: lines 420-426
RunCall(r) ==
  /\ pc[r] = "Idle"
  /\ \E a \in TwoRunArguments :
       /\ args' = [args EXCEPT ![r] = a]
       /\ context' = [context EXCEPT ![r] =
                        AgentContext(a.company_name, a.company_data,
                                     a.news_articles, a.model_prediction)]
  /\ pc' = [pc EXCEPT ![r] = "NotStarted"]
  /\ UNCHANGED <<news_result, model_result, final_result, report, raised, calls>>
  /\ UNCHANGED TwoRunsFixed

\* the exception of a stage leaves run r
RunPropagate(r, exc) ==
  /\ pc' = [pc EXCEPT ![r] = "Raised"]
  /\ raised' = [raised EXCEPT ![r] = exc]

\* run r, lines 428-429
RunNewsStage(r) ==
  /\ pc[r] = "NotStarted"
  /\ calls' = [calls EXCEPT ![r] = Append(@, "news_analysis")]
  /\ LET res == NewsAnalysisAgent_process(RunContext(r))
     IN  IF res.ok
         THEN /\ news_result' = [news_result EXCEPT ![r] = res.val]
              /\ context' = [context EXCEPT ![r] = AppendHistory(RunContext(r), res.val)]
              /\ pc' = [pc EXCEPT ![r] = "NewsAnalyzed"]
              /\ UNCHANGED raised
         ELSE /\ RunPropagate(r, res.exc)
              /\ UNCHANGED <<news_result, context>>
  /\ UNCHANGED <<model_result, final_result, report, args>>
  /\ UNCHANGED TwoRunsFixed

\* run r, lines 431-432
RunModelStage(r) ==
  /\ pc[r] = "NewsAnalyzed"
  /\ calls' = [calls EXCEPT ![r] = Append(@, "model_interpretation")]
  /\ \E outcome \in InferenceOutcomes :
       LET res == ModelInterpretabilityAgent_process(model_agent, RunContext(r), outcome)
       IN  IF res.ok
           THEN /\ model_result' = [model_result EXCEPT ![r] = res.val]
                /\ context' = [context EXCEPT ![r] = AppendHistory(RunContext(r), res.val)]
                /\ pc' = [pc EXCEPT ![r] = "Interpreted"]
                /\ UNCHANGED raised
           ELSE /\ RunPropagate(r, res.exc)
                /\ UNCHANGED <<model_result, context>>
  /\ UNCHANGED <<news_result, final_result, report, args>>
  /\ UNCHANGED TwoRunsFixed

\* run r, line 434
RunSynthesisStage(r) ==
  /\ pc[r] = "Interpreted"
  /\ calls' = [calls EXCEPT ![r] = Append(@, "synthesis")]
  /\ \E llm \in LLMOutcomes :
       LET res == DiscussionOrchestrator_process(api_key, RunContext(r), llm)
       IN  IF res.ok
           THEN /\ final_result' = [final_result EXCEPT ![r] = res.val]
                /\ pc' = [pc EXCEPT ![r] = "Synthesized"]
                /\ UNCHANGED raised
           ELSE /\ RunPropagate(r, res.exc)
                /\ UNCHANGED final_result
  /\ UNCHANGED <<context, news_result, model_result, report, args>>
  /\ UNCHANGED TwoRunsFixed

\* run r, lines 436-445
RunReturn(r) ==
  /\ pc[r] = "Synthesized"
  /\ report' = [report EXCEPT ![r] =
                  FinalReport(RunContext(r).company_name, news_result[r],
                              model_result[r], final_result[r], RunContext(r))]
  /\ pc' = [pc EXCEPT ![r] = "Done"]
  /\ UNCHANGED <<context, news_result, model_result, final_result, raised, calls, args>>
  /\ UNCHANGED TwoRunsFixed

\* the task of run r is cancelled at an await: its context and locals are
\* dropped
Abandon(r) ==
  /\ pc[r] \in {"NotStarted", "NewsAnalyzed", "Interpreted"}
  /\ pc' = [pc EXCEPT ![r] = "Abandoned"]
  /\ context' = [context EXCEPT ![r] = Nil]
  /\ news_result' = [news_result EXCEPT ![r] = Nil]
  /\ model_result' = [model_result EXCEPT ![r] = Nil]
  /\ final_result' = [final_result EXCEPT ![r] = Nil]
  /\ UNCHANGED <<report, raised, calls, args>>
  /\ UNCHANGED TwoRunsFixed

NextTwoRuns ==
  \E r \in Runs :
    \/ RunCall(r)
    \/ RunNewsStage(r)
    \/ RunModelStage(r)
    \/ RunSynthesisStage(r)
    \/ RunReturn(r)
    \/ Abandon(r)

SpecTwoRuns == InitTwoRuns /\ [][NextTwoRuns]_vars


(***************************************************************************)
(* NewsService: fetch_company_news calls on the module-level instance.     *)
(*                                                                         *)
(* Time is counted in seconds.  pc, args, calls, report and raised hold    *)
(* one value per call here: the position of the call, its arguments, the   *)
(* HTTP requests it has sent, the list it returned and the exception that  *)
(* left it; returned holds what the provider did with its latest request.  *)
(***************************************************************************)
min_request_interval == 1

max_retries == 3

\* the coroutines that call fetch_company_news on the shared instance
Callers == {1, 2}

\* days_back values CompanyAnalysisRequest admits: Optional[int], unconstrained
DaysBackInputs == {Num(30), Num(1000000), None}

\* datetime.now() - timedelta(days=days_back): TypeError for None,
\* OverflowError when the date would precede year 1 (today is day 739 000
\* and some of the calendar)
FromDate(days_back) ==
  CASE days_back.t = "None" -> Raise("TypeError")
    [] days_back.n >= 740000 -> Raise("OverflowError")
    [] OTHER -> Ok(<<"today-", ToString(days_back.n)>>)

\* articles of a provider payload: complete, without description, with a
\* null source
ProviderArticle1 ==
  [title |-> Str("T1"), description |-> Text(Desc1), source |-> [name |-> Str("Wire")]]

ProviderArticle2 ==
  [title |-> Str("T2"), description |-> None, source |-> [name |-> Str("Wire")]]

ProviderArticle3 ==
  [title |-> Str("T3"), description |-> Text(Desc2), source |-> None]

\* what the provider does with one GET
NewsResponses ==
  {[kind |-> "ok", articles |-> <<>>],
   [kind |-> "ok", articles |-> <<ProviderArticle1, ProviderArticle2>>],
   [kind |-> "ok", articles |-> <<ProviderArticle3>>],
   [kind |-> "status_not_ok"],
   [kind |-> "429"],
   [kind |-> "http_error"],
   [kind |-> "timeout"],
   [kind |-> "bad_json"]}

\* bool(x) of a str or None field
FieldTruthy(x) == x # None /\ x # Str("") /\ x # Text(<<>>)

\* the list comprehension of lines 70-81: AttributeError when a kept article
\* has a null source
ArticlesOf(articles) ==
  LET kept == SelectIdx(articles,
                [i \in DOMAIN articles |->
                   FieldTruthy(articles[i].title) /\ FieldTruthy(articles[i].description)],
                1)
  IN  IF \E i \in DOMAIN kept : kept[i].source = None
      THEN Raise("AttributeError")
      ELSE Ok([i \in DOMAIN kept |->
                 [title |-> kept[i].title,
                  description |-> kept[i].description,
                  source |-> kept[i].source.name,
                  sentiment_score |-> None]])

\* mutant of AttemptsLeft: one more turn of the retry loop
AttemptsLeft_OneMore(n) == n < max_retries + 1

\* "for attempt in range(self.max_retries)": the attempt n is made
AttemptsLeft(n) == n < max_retries

\* 2 ** attempt
Backoff(n) == 2 ^ n

InitNews ==
  /\ news_api_key \in {"", "news_key"}
  /\ elapsed = min_request_interval
  /\ spacing = min_request_interval
  /\ pc = [t \in Callers |-> "Idle"]
  /\ args = [t \in Callers |-> Nil]
  /\ calls = [t \in Callers |-> <<>>]
  /\ report = [t \in Callers |-> Nil]
  /\ raised = [t \in Callers |-> ""]
  /\ attempt = [t \in Callers |-> 0]
  /\ sleeping = [t \in Callers |-> 0]
  /\ api_key = ""
  /\ model_agent = NoModelAgent
  /\ context = Nil
  /\ news_result = Nil
  /\ model_result = Nil
  /\ final_result = Nil
  /\ returned = [t \in Callers |-> ""]
  /\ prev = Nil
  /\ repeat = FALSE
  /\ inference = ""
  /\ llm_outcome = ""
  /\ llm_requests = 0

\* what the NewsService actions never touch
NewsFixed ==
  <<news_api_key, api_key, model_agent, context, news_result, model_result,
    final_result, prev, repeat, inference, llm_outcome, llm_requests>>

\* fetch_company_news returns result to caller t
FetchReturn(t, result) ==
  /\ pc' = [pc EXCEPT ![t] = "Done"]
  /\ report' = [report EXCEPT ![t] = result]

\* caller t goes to sleep for the given seconds
FetchSleep(t, seconds, position) ==
  /\ pc' = [pc EXCEPT ![t] = position]
  /\ sleeping' = [sleeping EXCEPT ![t] = seconds]

\* lines 99 and 54: the time of the request is noted and the GET is sent
FetchSend(t) ==
  /\ spacing' = elapsed
  /\ elapsed' = 0
  /\ calls' = [calls EXCEPT ![t] = Append(@, "GET")]
  /\ pc' = [pc EXCEPT ![t] = "InFlight"]

\* fetch_company_news is called: lines 28-47
FetchCall(t) ==
  /\ pc[t] = "Idle"
  /\ \E days_back \in DaysBackInputs :
       /\ args' = [args EXCEPT ![t] = [company_name |-> "Test Company",
                                      days_back |-> days_back]]
       /\ IF news_api_key = ""
          THEN /\ FetchReturn(t, <<>>)
               /\ UNCHANGED raised
          ELSE IF ~FromDate(days_back).ok
          THEN /\ pc' = [pc EXCEPT ![t] = "Raised"]
               /\ raised' = [raised EXCEPT ![t] = FromDate(days_back).exc]
               /\ UNCHANGED report
          ELSE /\ pc' = [pc EXCEPT ![t] = "Limiter"]
               /\ UNCHANGED <<report, raised>>
  /\ attempt' = [attempt EXCEPT ![t] = 0]
  /\ UNCHANGED <<calls, returned, sleeping, elapsed, spacing>>
  /\ UNCHANGED NewsFixed

\* _rate_limit, lines 95-99, up to its await: too early, sleep the remainder;
\* else note the time and send
RateLimit(t) ==
  /\ pc[t] = "Limiter"
  /\ IF elapsed < min_request_interval
     THEN /\ FetchSleep(t, min_request_interval - elapsed, "Throttled")
          /\ UNCHANGED <<elapsed, spacing, calls>>
     ELSE /\ FetchSend(t)
          /\ UNCHANGED sleeping
  /\ UNCHANGED <<args, report, raised, attempt, returned>>
  /\ UNCHANGED NewsFixed

\* _rate_limit after its sleep, line 99, and the GET of line 54
Resume(t) ==
  /\ pc[t] = "Throttled"
  /\ sleeping[t] = 0
  /\ FetchSend(t)
  /\ UNCHANGED <<args, report, raised, attempt, sleeping, returned>>
  /\ UNCHANGED NewsFixed

\* the GET of caller t ends: lines 56-91
Response(t) ==
  /\ pc[t] = "InFlight"
  /\ \E response \in NewsResponses :
       LET last == attempt[t] = max_retries - 1
           parsed == IF response.kind = "ok" THEN ArticlesOf(response.articles)
                     ELSE Raise("Exception")
       IN  /\ returned' = [returned EXCEPT ![t] = response.kind]
           /\ CASE response.kind = "429" ->
                     FetchSleep(t, Backoff(attempt[t]), "Backoff") /\ UNCHANGED report
                [] response.kind = "status_not_ok" ->
                     FetchReturn(t, <<>>) /\ UNCHANGED sleeping
                [] response.kind = "ok" /\ parsed.ok ->
                     FetchReturn(t, parsed.val) /\ UNCHANGED sleeping
                [] response.kind = "timeout" ->
                     IF last THEN FetchReturn(t, <<>>) /\ UNCHANGED sleeping
                     ELSE FetchSleep(t, Backoff(attempt[t]), "Backoff") /\ UNCHANGED report
                [] OTHER ->
                     IF last THEN FetchReturn(t, <<>>) /\ UNCHANGED sleeping
                     ELSE FetchSleep(t, 1, "Backoff") /\ UNCHANGED report
  /\ UNCHANGED <<args, calls, raised, attempt, elapsed, spacing>>
  /\ UNCHANGED NewsFixed

\* the sleep of lines 59, 86 or 91 is over: the next turn of the loop, or
\* line 92 when there is none
NextAttempt(t) ==
  /\ pc[t] = "Backoff"
  /\ sleeping[t] = 0
  /\ attempt' = [attempt EXCEPT ![t] = @ + 1]
  /\ IF AttemptsLeft(attempt[t] + 1)
     THEN pc' = [pc EXCEPT ![t] = "Limiter"] /\ UNCHANGED report
     ELSE FetchReturn(t, <<>>)
  /\ UNCHANGED <<args, calls, raised, returned, sleeping, elapsed, spacing>>
  /\ UNCHANGED NewsFixed

\* the caller takes what the call left and may call again
FetchForget(t) ==
  /\ pc[t] \in {"Done", "Raised"}
  /\ pc' = [pc EXCEPT ![t] = "Idle"]
  /\ args' = [args EXCEPT ![t] = Nil]
  /\ calls' = [calls EXCEPT ![t] = <<>>]
  /\ report' = [report EXCEPT ![t] = Nil]
  /\ raised' = [raised EXCEPT ![t] = ""]
  /\ attempt' = [attempt EXCEPT ![t] = 0]
  /\ returned' = [returned EXCEPT ![t] = ""]
  /\ UNCHANGED <<sleeping, elapsed, spacing>>
  /\ UNCHANGED NewsFixed

\* a second passes
Tick ==
  /\ elapsed' = IF elapsed < min_request_interval THEN elapsed + 1 ELSE elapsed
  /\ sleeping' = [t \in Callers |-> IF sleeping[t] > 0 THEN sleeping[t] - 1 ELSE 0]
  /\ UNCHANGED <<pc, args, calls, report, raised, attempt, spacing, returned>>
  /\ UNCHANGED NewsFixed

\* the steps of call t the event loop takes by itself
FetchStep(t) == RateLimit(t) \/ Resume(t) \/ Response(t) \/ NextAttempt(t)

NextNews ==
  \/ \E t \in Callers :
       \/ FetchCall(t)
       \/ RateLimit(t)
       \/ Resume(t)
       \/ Response(t)
       \/ NextAttempt(t)
       \/ FetchForget(t)
  \/ Tick

\* time passes, a coroutine that can run is run, and every GET ends (it has
\* a timeout)
SpecNews ==
  /\ InitNews
  /\ [][NextNews]_vars
  /\ WF_vars(Tick)
  /\ \A t \in Callers : WF_vars(FetchStep(t))


(***************************************************************************)
(* analyze_company (routers/agents.py).                                    *)
(*                                                                         *)
(* pc is the position of the handler, args its request, context the        *)
(* company_data it built, news_result the news_articles it fetched, calls  *)
(* the collaborators it has invoked and heard from, in order, report its   *)
(* response and raised the HTTP status of the HTTPException that left it.  *)
(***************************************************************************)
\* AgentPipeline.run as one function of its arguments and of what inference
\* and the LLM provider do; each stage result is computed once and bound
AgentPipeline_run(key, agent, company_name, company_data, news_articles, model_prediction, outcome, llm) ==
  LET c0 == AgentContext(company_name, company_data, news_articles, model_prediction)
  IN  CHOOSE result \in
        UNION {
          IF ~n.ok THEN {n}
          ELSE UNION {
            IF ~m.ok THEN {m}
            ELSE {IF ~f.ok THEN f
                  ELSE Ok(FinalReport(company_name, n.val, m.val, f.val,
                                      AppendHistory(AppendHistory(c0, n.val), m.val))) :
                    f \in {DiscussionOrchestrator_process(
                             key, AppendHistory(AppendHistory(c0, n.val), m.val), llm)}}
            : m \in {ModelInterpretabilityAgent_process(
                       agent, AppendHistory(c0, n.val), outcome)}}
          : n \in {NewsAnalysisAgent_process(c0)}} : TRUE

\* the rows of esg_data by symbol; "ZZZZ" has none
Symbols == {"TEST", "NULL", "ZZZZ"}

\* cursor.fetchone() for the symbol, None when there is no row
FetchOne(symbol) ==
  CASE symbol = "TEST" -> ("Symbol" :> Str("TEST")) @@ TestCompanyData
    [] symbol = "NULL" -> ("Symbol" :> Str("NULL")) @@ NullRowData
    [] OTHER -> None

\* the requests CompanyAnalysisRequest admits
Requests ==
  [symbol : Symbols, days_back : DaysBackInputs, include_news : {TRUE, FALSE}]

\* mutant of RowMissing: the test of the row is left out
RowMissing_Never(row) == FALSE

\* "if not row"
RowMissing(row) == row = None

\* the model_prediction of lines 66-69 (features_used left out)
RouterPrediction(company_data) ==
  [predicted_class |-> Get(company_data, "ESG Risk Level", Str("Unknown"))]

\* what fetch_company_news gives the handler: an exception for a days_back
\* it cannot take, else one of the lists it can return
FetchOutcomes(key, days_back) ==
  IF key # "" /\ ~FromDate(days_back).ok THEN {FromDate(days_back)}
  ELSE IF key = "" THEN {Ok(<<>>)}
  ELSE {Ok(<<>>), ArticlesOf(<<ProviderArticle1, ProviderArticle2>>)}

InitRouter ==
  /\ api_key \in ApiKeys
  /\ model_agent \in {NoModelAgent, LoadedModelAgent}
  /\ news_api_key \in {"", "news_key"}
  /\ pc = "Idle"
  /\ args = Nil
  /\ context = Nil
  /\ news_result = Nil
  /\ report = Nil
  /\ raised = ""
  /\ calls = <<>>
  /\ model_result = Nil
  /\ final_result = Nil
  /\ returned = <<>>
  /\ prev = Nil
  /\ repeat = FALSE
  /\ inference = ""
  /\ llm_outcome = ""
  /\ llm_requests = 0
  /\ elapsed = 0
  /\ attempt = <<>>
  /\ sleeping = <<>>
  /\ spacing = 0

\* what the handler never touches
RouterFixed ==
  <<api_key, model_agent, news_api_key, model_result, final_result, returned, prev,
    repeat, inference, llm_outcome, llm_requests, elapsed, attempt, sleeping, spacing>>

\* raise HTTPException(status_code=status)
RouterFail(status) ==
  /\ pc' = "Failed"
  /\ raised' = status

\* a request reaches the handler
Receive ==
  /\ pc = "Idle"
  /\ \E request \in Requests : args' = request
  /\ pc' = "Lookup"
  /\ UNCHANGED <<context, news_result, report, raised, calls>>
  /\ UNCHANGED RouterFixed

\* lines 27-57: the row is looked up; 404 when there is none, 500 when the
\* database fails
Lookup ==
  /\ pc = "Lookup"
  /\ \E db_ok \in BOOLEAN :
       LET row == FetchOne(args.symbol)
       IN  IF ~db_ok
           THEN /\ calls' = Append(calls, "db")
                /\ RouterFail("500")
                /\ UNCHANGED context
           ELSE /\ calls' = calls \o <<"db", "row">>
                /\ IF RowMissing(row)
                   THEN RouterFail("404") /\ UNCHANGED context
                   ELSE IF row = None
                   THEN RouterFail("500") /\ UNCHANGED context
                   ELSE /\ context' = row
                        /\ pc' = "News"
                        /\ UNCHANGED raised
  /\ UNCHANGED <<args, news_result, report>>
  /\ UNCHANGED RouterFixed

\* lines 59-64: the news fetch, awaited
FetchNews ==
  /\ pc = "News"
  /\ IF args.include_news
     THEN \E fetched \in FetchOutcomes(news_api_key, args.days_back) :
            IF fetched.ok
            THEN /\ calls' = calls \o <<"fetch_company_news", "fetched">>
                 /\ news_result' = fetched.val
                 /\ pc' = "Pipeline"
                 /\ UNCHANGED raised
            ELSE /\ calls' = Append(calls, "fetch_company_news")
                 /\ RouterFail("500")
                 /\ UNCHANGED news_result
     ELSE /\ news_result' = <<>>
          /\ pc' = "Pipeline"
          /\ UNCHANGED <<calls, raised>>
  /\ UNCHANGED <<args, context, report>>
  /\ UNCHANGED RouterFixed

\* lines 66-89: the pipeline is run and the response built; an exception of
\* the pipeline becomes a 500
RunPipeline ==
  /\ pc = "Pipeline"
  /\ \E outcome \in InferenceOutcomes, llm \in LLMOutcomes :
       LET analysis ==
             AgentPipeline_run(api_key, model_agent, PyFormat(context["Name"]), context,
                               news_result, RouterPrediction(context), outcome, llm)
       IN  IF analysis.ok
           THEN /\ calls' = calls \o <<"run", "ran">>
                /\ report' = [success |-> TRUE, company |-> context,
                              news_count |-> Len(news_result),
                              analysis |-> analysis.val]
                /\ pc' = "Responded"
                /\ UNCHANGED raised
           ELSE /\ calls' = Append(calls, "run")
                /\ RouterFail("500")
                /\ UNCHANGED report
  /\ UNCHANGED <<args, context, news_result>>
  /\ UNCHANGED RouterFixed

\* the response or the error has been sent; the next request may come
RouterDone ==
  /\ pc \in {"Responded", "Failed"}
  /\ pc' = "Idle"
  /\ args' = Nil
  /\ context' = Nil
  /\ news_result' = Nil
  /\ report' = Nil
  /\ raised' = ""
  /\ calls' = <<>>
  /\ UNCHANGED RouterFixed

NextRouter ==
  \/ Receive
  \/ Lookup
  \/ FetchNews
  \/ RunPipeline
  \/ RouterDone

SpecRouter == InitRouter /\ [][NextRouter]_vars


(***************************************************************************)
(* The request models of backend/schemas.py.                               *)
(*                                                                         *)
(* args is the items argument BatchPredictionRequest is constructed with,  *)
(* report the model instance that construction gave and raised the         *)
(* exception that left it.                                                 *)
(***************************************************************************)
MaxItems == 3

ScoreFields ==
  {"environment_risk_score", "social_risk_score", "governance_risk_score",
   "controversy_score"}

\* an item dict with the four scores and the employee count given
ItemDict(env, social, gov, controversy, employees) ==
  [k \in ScoreFields \cup {"full_time_employees"} |->
     CASE k = "environment_risk_score" -> Num(env)
       [] k = "social_risk_score" -> Num(social)
       [] k = "governance_risk_score" -> Num(gov)
       [] k = "controversy_score" -> Num(controversy)
       [] OTHER -> Num(employees)]

\* the two items of test_valid_batch_request, an item with a score above 100,
\* one with more than 1_000_000 employees and one with required fields missing
ItemInputs ==
  {ItemDict(45, 32, 28, 15, 50000),
   ItemDict(65, 52, 48, 35, 10000),
   ItemDict(101, 32, 28, 15, 50000),
   ItemDict(45, 32, 28, 15, 1000001),
   [k \in {"environment_risk_score", "social_risk_score"} |->
      IF k = "environment_risk_score" THEN Num(45) ELSE Num(32)]}

\* the lists of at most MaxItems items
RECURSIVE ItemLists(_)
ItemLists(n) ==
  IF n = 0 THEN {<<>>}
  ELSE LET shorter == ItemLists(n - 1)
       IN  shorter \cup {Append(l, i) : l \in {s \in shorter : Len(s) = n - 1},
                                        i \in ItemInputs}

\* a float field with Field(..., ge=0, le=100)
ScoreValid(item, field) ==
  /\ field \in DOMAIN item
  /\ item[field].t = "int"
  /\ item[field].n >= 0
  /\ item[field].n <= 100

\* full_time_employees: Field(..., ge=0) and the validator employees_reasonable
EmployeesValid(item) ==
  /\ "full_time_employees" \in DOMAIN item
  /\ item["full_time_employees"].t = "int"
  /\ item["full_time_employees"].n >= 0
  /\ ~(item["full_time_employees"].n > 1000000)

\* ESGPredictionRequest(**item): the instance, its scores made floats, or a
\* ValidationError
ESGPredictionRequest(item) ==
  IF (\A field \in ScoreFields : ScoreValid(item, field)) /\ EmployeesValid(item)
  THEN Ok([k \in DOMAIN item |->
             IF k \in ScoreFields THEN [t |-> "float", n |-> item[k].n] ELSE item[k]])
  ELSE Raise("ValidationError")

\* BatchPredictionRequest(items=items): items: List[ESGPredictionRequest], a
\* list of any length each element of which is validated
BatchPredictionRequest(items) ==
  IF \A i \in 1..Len(items) : ESGPredictionRequest(items[i]).ok
  THEN Ok([items |-> [i \in 1..Len(items) |-> ESGPredictionRequest(items[i]).val]])
  ELSE Raise("ValidationError")

InitSchemas ==
  /\ pc = "Idle"
  /\ args = Nil
  /\ report = Nil
  /\ raised = ""
  /\ api_key = ""
  /\ model_agent = Nil
  /\ context = Nil
  /\ news_result = Nil
  /\ model_result = Nil
  /\ final_result = Nil
  /\ calls = <<>>
  /\ returned = <<>>
  /\ prev = Nil
  /\ repeat = FALSE
  /\ inference = ""
  /\ llm_outcome = ""
  /\ llm_requests = 0
  /\ NewsServiceUnused

\* what constructing a request model never touches
SchemasFixed ==
  <<api_key, model_agent, context, news_result, model_result, final_result, calls,
    returned, prev, repeat, inference, llm_outcome, llm_requests, news_vars>>

\* BatchPredictionRequest is called with a list of items
Construct ==
  /\ pc = "Idle"
  /\ \E items \in ItemLists(MaxItems) : args' = items
  /\ pc' = "Validating"
  /\ UNCHANGED <<report, raised>>
  /\ UNCHANGED SchemasFixed

\* pydantic validates the fields and returns the instance or raises
Validate ==
  /\ pc = "Validating"
  /\ LET result == BatchPredictionRequest(args)
     IN  IF result.ok
         THEN /\ report' = result.val
              /\ pc' = "Accepted"
              /\ UNCHANGED raised
         ELSE /\ raised' = result.exc
              /\ pc' = "Rejected"
              /\ UNCHANGED report
  /\ UNCHANGED args
  /\ UNCHANGED SchemasFixed

\* the instance or the exception is dropped
Discard ==
  /\ pc \in {"Accepted", "Rejected"}
  /\ pc' = "Idle"
  /\ args' = Nil
  /\ report' = Nil
  /\ raised' = ""
  /\ UNCHANGED SchemasFixed

NextSchemas ==
  \/ Construct
  \/ Validate
  \/ Discard

SpecSchemas == InitSchemas /\ [][NextSchemas]_vars


(***************************************************************************)
(* Properties.                                                             *)
(***************************************************************************)
StageOrder == <<"news_analysis", "model_interpretation", "synthesis">>

\* a call of run is in progress or has ended
InCall == pc # "Idle"

\* the records of ArticleSet whose description holds a controversy keyword,
\* read off the descriptions: "Lawsuit ...", "Refined ..." (fine), "SCANDAL"
IsControversyArticle(a) == a \in {Article1, Article2, Article4}

\* the positions of the controversy-matching articles of a list
ControversyPositions(articles) ==
  {i \in 1..Len(articles) : IsControversyArticle(articles[i])}

\* the position of the n-th controversy-matching article of a list
NthControversy(articles, n) ==
  CHOOSE i \in ControversyPositions(articles) :
    Cardinality({j \in ControversyPositions(articles) : j <= i}) = n

Min(a, b) == IF a < b THEN a ELSE b

\* C1: every call of run reaches Done with a report; no reachable state has a
\* stage's exception leaving run. (Refuted: exceptions do leave run.)
C1_NoRunEndsWithoutReport == pc # "Raised"

\* C2: in every run that has ended the three stages were each invoked exactly
\* once, in the order news analysis, model interpretation, synthesis, and
\* the result of a stage is in the history when the next stage is invoked.
\* (Refuted: a stage that raises keeps the later stages from being invoked.)
C2_AllStagesInvokedOnceInOrder ==
  /\ pc \in {"Done", "Raised"} => calls = StageOrder
  /\ pc = "NewsAnalyzed" => context.conversation_history = <<news_result>>
  /\ pc = "Interpreted" => context.conversation_history = <<news_result, model_result>>

\* C3: at every stage boundary of a run, the boundary after synthesis
\* included, conversation_history has as many entries as stages have been
\* executed. (Refuted: the synthesis result is never appended.)
C3_HistoryLengthIsStagesExecuted ==
  pc \in {"NotStarted", "NewsAnalyzed", "Interpreted", "Synthesized", "Done"}
    => Len(context.conversation_history) = Len(returned)

\* C4: the report run returns names the company_name argument, its agents
\* object has exactly the keys news_analysis, model_interpretation and
\* synthesis, the first two are entries 1 and 2 of conversation_log, and the
\* synthesis is the one the synthesis stage computed in this run from the
\* sentiment and indicators of entry 1 and the risk level of entry 2.
C4_ReportShape ==
  pc = "Done" =>
    /\ report.company = context.company_name
    /\ DOMAIN report.agents = {"news_analysis", "model_interpretation", "synthesis"}
    /\ Len(report.conversation_log) >= 2
    /\ report.agents.news_analysis = report.conversation_log[1]
    /\ report.agents.model_interpretation = report.conversation_log[2]
    /\ report.agents.news_analysis.agent = NewsAgentName
    /\ report.agents.model_interpretation.agent = ModelAgentName
    /\ report.agents.synthesis = final_result
    /\ report.agents.synthesis.agent = OrchestratorName
    /\ report.agents.synthesis.recommendations =
         _generate_recommendations(report.conversation_log[1].sentiment,
                                   report.conversation_log[2].risk_level,
                                   report.conversation_log[1].risk_indicators,
                                   report.agents.synthesis.news_model_alignment)

C4_Witness ==
  /\ pc = "Done"
  /\ report.agents.news_analysis.sentiment = "negative"
  /\ report.agents.model_interpretation.risk_level = Str("Low")

\* C5: for a run whose news_articles list is empty the news analysis result
\* has sentiment neutral, no key_themes, no risk_indicators and
\* total_articles = 0. (Refuted: the result has no total_articles field.)
C5_EmptyNewsResult ==
  (news_result # Nil /\ context.news_articles = <<>>) =>
    /\ news_result.sentiment = "neutral"
    /\ news_result.key_themes = <<>>
    /\ news_result.risk_indicators = <<>>
    /\ "total_articles" \in DOMAIN news_result
    /\ news_result.total_articles = 0

\* C6: for a non-empty news list the sentiment of the news analysis result is
\* negative for more than 2 controversy-matching articles, positive for none
\* and mixed for 1 or 2; controversy_count is the number of matching articles
\* and total_articles the length of the list.
C6_SentimentPolicy ==
  (news_result # Nil /\ context.news_articles # <<>>) =>
    LET n == Cardinality(ControversyPositions(context.news_articles))
    IN  /\ news_result.sentiment =
             (IF n > 2 THEN "negative" ELSE IF n = 0 THEN "positive" ELSE "mixed")
        /\ news_result.controversy_count = n
        /\ news_result.total_articles = Len(context.news_articles)

C6_Witness ==
  /\ news_result # Nil
  /\ Cardinality(ControversyPositions(context.news_articles)) = 2
  /\ Len(context.news_articles) = 3
  /\ news_result.sentiment = "mixed"

\* C7: risk_indicators of every news analysis result holds one string per
\* controversy-matching article, in input order, for the first 3 of them: its
\* length is min(3, number of matching articles), which is the result's
\* controversy_count; three "lawsuit" articles give 3 indicators,
\* controversy_count 3 and sentiment negative.
C7_RiskIndicatorsCapped ==
  news_result # Nil =>
    LET articles == context.news_articles
        n == Cardinality(ControversyPositions(articles))
        indicators == news_result.risk_indicators
    IN  /\ Len(indicators) = Min(3, n)
        /\ \A i \in 1..Len(indicators) :
             indicators[i] =
               <<"Controversy detected: ",
                 PyFormat(articles[NthControversy(articles, i)].title)>>
        /\ "controversy_count" \in DOMAIN news_result
             => news_result.controversy_count = n
        /\ articles = <<Article1, Article1, Article1>>
             => /\ Len(indicators) = 3
                /\ news_result.controversy_count = 3
                /\ news_result.sentiment = "negative"

C7_Witness ==
  /\ news_result # Nil
  /\ context.news_articles = <<Article1, Article2, Article2, Article1>>
  /\ Len(news_result.risk_indicators) = 3

\* the sentiment and risk level the synthesis stage read in this run
SynthSentiment == news_result.sentiment
SynthRisk == model_result.risk_level

\* C8 as stated: Strong alignment iff the sentiment is the expected sentiment
\* of the risk level (Low -> positive, Medium -> mixed, High -> negative);
\* Partial alignment iff the sentiment is mixed and not a Strong match;
\* Divergent signals otherwise. (Refuted: neutral news with a risk level
\* outside the three is a Strong alignment.)
C8_AlignmentAsStated ==
  final_result # Nil =>
    LET strong ==
          \/ SynthRisk = Str("Low") /\ SynthSentiment = "positive"
          \/ SynthRisk = Str("Medium") /\ SynthSentiment = "mixed"
          \/ SynthRisk = Str("High") /\ SynthSentiment = "negative"
    IN  final_result.news_model_alignment =
          (IF strong THEN "Strong alignment"
           ELSE IF SynthSentiment = "mixed" THEN "Partial alignment"
           ELSE "Divergent signals")

\* C8 amended: as stated, with every risk level other than Low, Medium and
\* High (such as Unknown) expecting the sentiment neutral.
C8_AlignmentAmended ==
  final_result # Nil =>
    LET strong ==
          \/ SynthRisk = Str("Low") /\ SynthSentiment = "positive"
          \/ SynthRisk = Str("Medium") /\ SynthSentiment = "mixed"
          \/ SynthRisk = Str("High") /\ SynthSentiment = "negative"
          \/ /\ SynthRisk \notin {Str("Low"), Str("Medium"), Str("High")}
             /\ SynthSentiment = "neutral"
    IN  final_result.news_model_alignment =
          (IF strong THEN "Strong alignment"
           ELSE IF SynthSentiment = "mixed" THEN "Partial alignment"
           ELSE "Divergent signals")

C8_Witness ==
  /\ final_result # Nil
  /\ SynthRisk = Str("Unknown")
  /\ SynthSentiment = "neutral"
  /\ final_result.news_model_alignment = "Strong alignment"

\* the one assessment that starts with "Critical"
StartsWithCritical(assessment) ==
  assessment = "Critical: High risk confirmed by both model and news"

\* C9: overall_risk_assessment of a synthesis result starts with Critical
\* iff the sentiment is negative and the risk level is High, on either
\* synthesis path; a run with empty news never yields Critical.
C9_CriticalIffNegativeAndHigh ==
  final_result # Nil =>
    /\ StartsWithCritical(final_result.overall_risk_assessment)
         <=> (SynthSentiment = "negative" /\ SynthRisk = Str("High"))
    /\ context.news_articles = <<>>
         => ~StartsWithCritical(final_result.overall_risk_assessment)

C9_Witness ==
  /\ final_result # Nil
  /\ SynthSentiment = "negative"
  /\ SynthRisk = Str("High")
  /\ StartsWithCritical(final_result.overall_risk_assessment)

\* C10: with the LLM unconfigured, a second call of run with the arguments of
\* the first returns the same synthesis, recommendations and
\* overall_risk_assessment as the first.
C10_RepeatedRunIsIdentical ==
  (pc = "Done" /\ repeat /\ prev # Nil /\ ~is_available(api_key)) =>
    /\ report.agents.synthesis.synthesis = prev.agents.synthesis.synthesis
    /\ report.agents.synthesis.recommendations = prev.agents.synthesis.recommendations
    /\ report.agents.synthesis.overall_risk_assessment =
         prev.agents.synthesis.overall_risk_assessment

C10_Witness ==
  /\ pc = "Done"
  /\ repeat
  /\ prev # Nil
  /\ ~is_available(api_key)
  /\ context.news_articles # <<>>
  /\ report.agents.synthesis.synthesis = prev.agents.synthesis.synthesis


\* the synthesis stage of this call has been invoked
SynthesisInvoked == Len(calls) = 3

\* C11: when the LLM provider is unconfigured (no API key or the placeholder
\* key), the synthesis stage sends no LLM request and returns a result that
\* carries a note field and no powered_by field.
C11_UnconfiguredFallback ==
  (SynthesisInvoked /\ api_key \in {"", PlaceholderKey}) =>
    /\ llm_requests = 0
    /\ pc # "Raised"
    /\ final_result # Nil
    /\ "note" \in DOMAIN final_result
    /\ "powered_by" \notin DOMAIN final_result

C11_Witness ==
  /\ pc = "Done"
  /\ api_key = PlaceholderKey
  /\ llm_requests = 0
  /\ "note" \in DOMAIN report.agents.synthesis

\* the provider's call fails: timeout, non-200 status or any other exception
LLMCallFails == llm_outcome \in {"timeout", "non200", "malformed200"}

\* C12: when the LLM provider is configured but its call fails, the synthesis
\* stage raises nothing and returns the deterministic fallback: the synthesis
\* text is the template the unconfigured path builds from the same fields, and
\* the result carries note instead of powered_by.
C12_FailedCallFallsBack ==
  (SynthesisInvoked /\ LLMCallFails) =>
    /\ pc # "Raised"
    /\ final_result # Nil
    /\ final_result.synthesis =
         _synthesize_insights(context.company_name, news_result, model_result,
                              final_result.news_model_alignment)
    /\ "note" \in DOMAIN final_result
    /\ "powered_by" \notin DOMAIN final_result

\* C13: when the LLM provider is configured and answers the completion request
\* with HTTP 200, the synthesis stage returns a result whose synthesis is the
\* completion for a prompt embedding company name, model prediction and news
\* summary, and which carries powered_by.
C13_CompletionOn200 ==
  (SynthesisInvoked /\ llm_outcome = "ok200") =>
    /\ pc # "Raised"
    /\ llm_requests = 1
    /\ final_result # Nil
    /\ "powered_by" \in DOMAIN final_result
    /\ final_result.synthesis # <<>>
    /\ final_result.synthesis[1] = "completion of: "
    /\ \E i \in DOMAIN final_result.synthesis :
         final_result.synthesis[i] = context.company_name
    /\ \E i \in DOMAIN final_result.synthesis :
         final_result.synthesis[i] = PyFormat(model_result.risk_level)


\* the interpretation stage of this call has been invoked
InterpretationInvoked == Len(calls) >= 2

\* the exception left run from the interpretation stage
RaisedInInterpretation == pc = "Raised" /\ Len(calls) = 2

\* every score of company_data that is present is a number
ScoresNotNull ==
  \A key \in DOMAIN context.company_data : context.company_data[key] # None

NoModelAvailable ==
  ~model_agent.model \/ ~model_agent.scaler \/ model_agent.feature_columns = <<>>

\* the baseline prediction run was given
Baseline == context.model_prediction

\* the label of the baseline prediction, 'Unknown' when it names none
BaselineLabel ==
  IF "predicted_class" \in DOMAIN Baseline THEN Baseline.predicted_class
  ELSE Str("Unknown")

\* the confidence of the baseline prediction as a percentage with two
\* decimals, that of 0 when it holds none
BaselineConfidenceText ==
  IF "confidence" \in DOMAIN Baseline
  THEN Str(Format_2pct(Baseline.confidence).val)
  ELSE Str("0.00%")

\* C15 as stated: when no model is available, the interpretation result has
\* the baseline prediction as risk_level, confidence 0 whatever the baseline
\* prediction mapping contains, and no probability distribution.
C15_NoModelConfidenceZero ==
  (InterpretationInvoked /\ NoModelAvailable /\ model_result # Nil) =>
    /\ model_result.risk_level = BaselineLabel
    /\ model_result.confidence = Str("0.00%")
    /\ model_result.probabilities = None

\* C15 amended: when no model is available, the interpretation result has the
\* baseline prediction as risk_level ('Unknown' when it names none), the
\* confidence the baseline prediction mapping contains (0 only when it
\* contains none), and no probability distribution.
C15_NoModelUsesBaseline ==
  (InterpretationInvoked /\ NoModelAvailable /\ model_result # Nil) =>
    /\ model_result.risk_level = BaselineLabel
    /\ model_result.confidence = BaselineConfidenceText
    /\ model_result.probabilities = None
    /\ inference = "none"

C15_Witness ==
  /\ pc = "Done"
  /\ model_agent = ScalerMissingAgent
  /\ Baseline = [predicted_class |-> Str("High"), confidence |-> Float(8500)]
  /\ report.agents.model_interpretation.risk_level = Str("High")
  /\ report.agents.model_interpretation.confidence = Str("85.00%")
  /\ report.agents.model_interpretation.probabilities = None


\* the renderings of the confidences of [0,1], in steps of a basis point
InRangeTexts == {Str(Format_2pct(Float(bp)).val) : bp \in 0..10000}

\* the label set the loaded model declares
DeclaredLabels ==
  {Str(model_agent.label_mapping_inv[i]) : i \in DOMAIN model_agent.label_mapping_inv}

\* the inference of this call raised
InferenceFailed == inference \in {"exception", "shape_mismatch"}

C17_ShapeMismatchSurfaces ==
  (InterpretationInvoked /\ inference = "shape_mismatch") =>
    /\ RaisedInInterpretation
    /\ model_result = Nil

\* the exception left run from the news analysis stage
RaisedInNewsAnalysis == pc = "Raised" /\ Len(calls) = 1

\* C18: the news analysis stage never raises for malformed article records
\* (description, title or another field missing or null): once invoked it has
\* returned a result.
C18_NewsStageNeverRaises ==
  Len(calls) >= 1 =>
    /\ ~RaisedInNewsAnalysis
    /\ news_result # Nil

\* C19: the interpretation stage never raises for malformed company_data: with
\* a metric key missing or null it returns a result.
C19_InterpretationToleratesNulls ==
  (InterpretationInvoked /\ ~ScoresNotNull) =>
    /\ ~RaisedInInterpretation
    /\ model_result # Nil


\* the context of run r as its arguments alone determine it, holding the
\* given stage results
OwnContext(r, history) ==
  [company_name |-> args[r].company_name,
   company_data |-> args[r].company_data,
   news_articles |-> args[r].news_articles,
   model_prediction |-> args[r].model_prediction,
   conversation_history |-> history]

\* the news result computed from the arguments of run r
OwnNewsResult(r) == NewsAnalysisAgent_process(OwnContext(r, <<>>)).val

\* the interpretation results that can be computed from the arguments of run r
OwnModelResults(r) ==
  LET ctx == OwnContext(r, <<OwnNewsResult(r)>>)
  IN  {ModelInterpretabilityAgent_process(model_agent, ctx, o).val :
         o \in {x \in InferenceOutcomes :
                  ModelInterpretabilityAgent_process(model_agent, ctx, x).ok}}

\* the synthesis results that can be computed from the arguments of run r and
\* the interpretation result m
OwnSynthesisResults(r, m) ==
  LET ctx == OwnContext(r, <<OwnNewsResult(r), m>>)
  IN  {DiscussionOrchestrator_process(api_key, ctx, l).val :
         l \in {x \in LLMOutcomes : DiscussionOrchestrator_process(api_key, ctx, x).ok}}

\* C20: of two runs of the shared pipeline interleaved at every await, each
\* works on its own context: its conversation_history and its report hold
\* only results computed from its own company_name, company_data,
\* news_articles and model_prediction, whatever the other run does, its being
\* abandoned included.
C20_RunsAreIsolated ==
  \A r \in Runs :
    /\ context[r] # Nil =>
         LET history == context[r].conversation_history
         IN  /\ context[r] = OwnContext(r, history)
             /\ Len(history) <= 2
             /\ Len(history) >= 1 => history[1] = OwnNewsResult(r)
             /\ Len(history) = 2 => history[2] \in OwnModelResults(r)
    /\ report[r] # Nil =>
         /\ report[r].company = args[r].company_name
         /\ report[r].agents.news_analysis = OwnNewsResult(r)
         /\ report[r].agents.model_interpretation \in OwnModelResults(r)
         /\ report[r].agents.synthesis
              \in OwnSynthesisResults(r, report[r].agents.model_interpretation)
         /\ report[r].conversation_log =
              <<report[r].agents.news_analysis, report[r].agents.model_interpretation>>

C20_Witness ==
  /\ pc[1] = "Done"
  /\ pc[2] = "Abandoned"
  /\ calls[2] = <<"news_analysis", "model_interpretation">>
  /\ args[1] # args[2]
  /\ args[1].news_articles = <<Article1, Article2>>
  /\ report[1].company = "Test Company"
  /\ report[1].agents.news_analysis.total_articles = 2
  /\ Len(report[1].conversation_log) = 2


\* C21: any two successive HTTP requests sent through the one NewsService are
\* at least min_request_interval apart, whatever the interleaving of the
\* concurrent calls and their retries.
C21_RequestsSpaced == spacing >= min_request_interval

\* call t of fetch_company_news is under way
Fetching(t) == pc[t] \in {"Limiter", "Throttled", "InFlight", "Backoff"}

\* C22: every fetch_company_news call ends, after at most max_retries HTTP
\* requests; on a 429 it sleeps 2^attempt seconds and goes to the next
\* attempt, and when a 429 answered the last attempt it returns the empty
\* list.
C22_BoundedRetries ==
  /\ [](\A t \in Callers : Len(calls[t]) <= max_retries /\ attempt[t] <= max_retries)
  /\ [][\A t \in Callers :
          (pc[t] = "InFlight" /\ pc'[t] # "InFlight" /\ returned'[t] = "429") =>
            /\ pc'[t] = "Backoff"
            /\ sleeping'[t] = 2 ^ attempt[t]
            /\ attempt[t] = Len(calls[t]) - 1]_vars
  /\ [][\A t \in Callers :
          (pc[t] = "Backoff" /\ pc'[t] # "Backoff") =>
            /\ sleeping[t] = 0
            /\ IF Len(calls[t]) < max_retries
               THEN pc'[t] = "Limiter"
               ELSE pc'[t] = "Done" /\ report'[t] = <<>>]_vars
  /\ \A t \in Callers : Fetching(t) ~> (pc[t] \in {"Done", "Raised"})

C22_Witness ==
  \E t \in Callers :
    /\ pc[t] = "Done"
    /\ Len(calls[t]) = max_retries
    /\ returned[t] = "429"
    /\ report[t] = <<>>

\* C23: fetch_company_news never lets an exception reach its caller, for every
\* company_name and days_back the request model admits.
C23_NeverPropagates == \A t \in Callers : pc[t] # "Raised" /\ raised[t] = ""


\* ---- C24 ----
\* the position in calls of the first entry equal to name, 0 when there is none
FirstCall(name) ==
  IF \E i \in 1..Len(calls) : calls[i] = name
  THEN CHOOSE i \in 1..Len(calls) :
         calls[i] = name /\ \A j \in 1..(i - 1) : calls[j] # name
  ELSE 0

UnknownSymbol == args # Nil /\ FetchOne(args.symbol) = None

C24_WitnessKnown ==
  /\ pc = "Responded"
  /\ args.include_news
  /\ Len(news_result) > 0
  /\ calls = <<"db", "row", "fetch_company_news", "fetched", "run", "ran">>


\* ---- C25 ----
\* the construction of a BatchPredictionRequest has been decided
Constructed == pc \in {"Accepted", "Rejected"}

\* every item of the list is a valid ESGPredictionRequest
AllItemsValid == \A i \in 1..Len(args) : ESGPredictionRequest(args[i]).ok

\* C25: constructing a BatchPredictionRequest with an empty items list is
\* rejected with a validation error, while a list of one or more valid items
\* is accepted.
C25_EmptyBatchRejected ==
  Constructed =>
    /\ args = <<>> => pc = "Rejected" /\ raised = "ValidationError"
    /\ (args # <<>> /\ AllItemsValid) => pc = "Accepted" /\ Len(report.items) = Len(args)

\* the half of C25 the code keeps: a list of one or more valid items is
\* accepted with every item kept, and a list with an invalid item is rejected
C25_ValidItemsAccepted ==
  (Constructed /\ args # <<>>) =>
    IF AllItemsValid
    THEN pc = "Accepted" /\ Len(report.items) = Len(args)
    ELSE pc = "Rejected" /\ raised = "ValidationError"


\* ---- C26 ----
\* the inference of this call gave class probabilities
InferenceSucceeded ==
  InterpretationInvoked /\ ModelAvailable(model_agent) /\ inference = "probs"

\* result is what the claim describes for the class probabilities probs
IsArgmaxResult(result, probs) ==
  /\ result.risk_level = Str(model_agent.label_mapping_inv[ArgMax(probs) + 1])
  /\ \A j \in 1..Len(probs) : probs[j] <= probs[ArgMax(probs) + 1]
  /\ result.confidence = Str(Format_2pct(Float(probs[ArgMax(probs) + 1])).val)
  /\ result.probabilities # None
  /\ Len(result.probabilities) = Len(probs)
  /\ \A i \in 1..Len(probs) :
       result.probabilities[i][1] = model_agent.label_mapping_inv[i]

\* C26: when a model is available and inference succeeds, the interpretation
\* stage returns a result whose risk_level is the label of the argmax class,
\* whose confidence is that class's (maximum) probability and whose
\* probabilities mapping has one entry per class.
C26_InferenceResult ==
  (InferenceSucceeded /\ ScoresNotNull) =>
    /\ ~RaisedInInterpretation
    /\ model_result # Nil
    /\ \E outcome \in {o \in InferenceOutcomes : o.kind = "probs"} :
         IsArgmaxResult(model_result, outcome.probs)


\* ---- C27 ----
\* the themes in the order process looks for them
ThemeOrder == <<"Environmental", "Social", "Governance">>

\* the records of ArticleSet whose description holds a keyword of the theme,
\* read off the descriptions: "... Emissions" is environmental, "Refined
\* labor audit" is social (labor) and governance (audit)
IsThemeArticle(a, theme) ==
  CASE theme = "Environmental" -> a = Article1
    [] theme = "Social" -> a = Article2
    [] theme = "Governance" -> a = Article2

\* the positions of the articles of a list that match the theme
ThemePositions(articles, theme) ==
  {i \in 1..Len(articles) : IsThemeArticle(articles[i], theme)}

\* the position of the n-th article of a list that matches the theme
NthOfTheme(articles, theme, n) ==
  CHOOSE i \in ThemePositions(articles, theme) :
    Cardinality({j \in ThemePositions(articles, theme) : j <= i}) = n

\* the place of a theme in ThemeOrder
ThemeRank(theme) == CHOOSE k \in 1..Len(ThemeOrder) : ThemeOrder[k] = theme

\* the news analysis stage has returned a result for the articles of context
NewsAnalyzed == news_result # Nil /\ context # Nil

\* C27: key_themes of a news analysis result holds an entry for a theme only
\* if at least one article matches the theme's keywords; the entries are in
\* the order Environmental, Social, Governance; each count is the number of
\* matching articles and each examples list holds the titles of the first at
\* most 2 matching articles.
C27_KeyThemes ==
  NewsAnalyzed =>
    LET articles == context.news_articles
        key_themes == news_result.key_themes
    IN  /\ \A e \in 1..Len(key_themes) :
             LET entry == key_themes[e]
                 matching == ThemePositions(articles, entry.theme)
             IN  /\ entry.theme \in {ThemeOrder[k] : k \in 1..Len(ThemeOrder)}
                 /\ matching # {}
                 /\ entry.count = Cardinality(matching)
                 /\ Len(entry.examples) = Min(2, entry.count)
                 /\ \A n \in 1..Len(entry.examples) :
                      entry.examples[n] = articles[NthOfTheme(articles, entry.theme, n)].title
        /\ \A e \in 1..(Len(key_themes) - 1) :
             ThemeRank(key_themes[e].theme) < ThemeRank(key_themes[e + 1].theme)

\* all three themes were found, one of them in more than 2 articles
C27_Witness ==
  /\ NewsAnalyzed
  /\ Len(news_result.key_themes) = 3
  /\ news_result.key_themes[1].count > 2
  /\ Len(news_result.key_themes[1].examples) = 2


\* ---- C28 ----
\* the synthesis stage has returned a result
Synthesized == final_result # Nil /\ news_result # Nil /\ model_result # Nil

DueDiligenceItems ==
  <<"Conduct detailed due diligence on recent controversies",
    "Monitor regulatory compliance status">>

DiscrepancyItems ==
  <<"Investigate discrepancy between news sentiment and model prediction",
    "Review recent events not captured in training data">>

MonitoringItems ==
  <<"Maintain current ESG monitoring practices",
    "Continue tracking sustainability metrics quarterly">>

\* the items are in the list, next to each other, from position first on
ItemsAt(list, items, first) ==
  /\ first + Len(items) - 1 <= Len(list)
  /\ \A k \in 1..Len(items) : list[first + k - 1] = items[k]

\* some item of items is somewhere in the list
AnyItemIn(list, items) ==
  \E i \in 1..Len(list), k \in 1..Len(items) : list[i] = items[k]

\* C28: recommendations holds, in this order, the two due-diligence and
\* compliance items iff risk is High or sentiment is negative, the two
\* investigate-discrepancy items iff alignment is 'Divergent signals', one item
\* quantifying the indicators iff risk_indicators is non-empty, and the two
\* default monitoring items iff none of the three conditions fired; it is never
\* empty and has at most 5 items.
C28_Recommendations ==
  Synthesized =>
    LET recs == final_result.recommendations
        risky == model_result.risk_level = Str("High") \/ news_result.sentiment = "negative"
        divergent == final_result.news_model_alignment = "Divergent signals"
        indicators == Len(news_result.risk_indicators)
        afterRisk == IF risky THEN 2 ELSE 0
        afterDivergent == afterRisk + (IF divergent THEN 2 ELSE 0)
        afterIndicators == afterDivergent + (IF indicators > 0 THEN 1 ELSE 0)
    IN  /\ risky <=> AnyItemIn(recs, DueDiligenceItems)
        /\ risky => ItemsAt(recs, DueDiligenceItems, 1)
        /\ divergent <=> AnyItemIn(recs, DiscrepancyItems)
        /\ divergent => ItemsAt(recs, DiscrepancyItems, afterRisk + 1)
        /\ indicators > 0 <=>
             \E i \in 1..Len(recs), n \in 1..MaxArticles :
               recs[i] = "Address " \o ToString(n) \o " identified risk indicators immediately"
        /\ indicators > 0 =>
             recs[afterDivergent + 1] =
               "Address " \o ToString(indicators) \o " identified risk indicators immediately"
        /\ afterIndicators = 0 <=> AnyItemIn(recs, MonitoringItems)
        /\ afterIndicators = 0 => recs = MonitoringItems
        /\ afterIndicators > 0 => Len(recs) = afterIndicators
        /\ Len(recs) >= 1
        /\ Len(recs) <= 5

\* all three conditions fired: five recommendations
C28_Witness ==
  /\ Synthesized
  /\ Len(final_result.recommendations) = 5
  /\ final_result.news_model_alignment = "Divergent signals"
  /\ news_result.sentiment = "negative"


\* ---- C29 ----
\* company_data follows the snake_case contract
SnakeCaseContract(company_data) ==
  {"total_esg_risk_score", "environment_risk_score", "controversy_score"}
    \subseteq DOMAIN company_data

\* the impact the fixed thresholds give a metric
ThresholdImpact(metric, score) ==
  CASE metric = "total_esg_risk_score" ->
         IF score > 30 THEN "High" ELSE IF score > 20 THEN "Medium" ELSE "Low"
    [] metric = "environment_risk_score" -> IF score > 10 THEN "High" ELSE "Medium"
    [] metric = "controversy_score" -> IF score > 3 THEN "High" ELSE "Low"

\* C29: for company_data under the snake_case contract, key_factors has at
\* most 5 entries, one for each of total ESG risk, environmental score and
\* controversy score with the impact the fixed thresholds give its value, and
\* the explanation names the first factor as primary factor.
C29_SnakeCaseKeyFactors ==
  (model_result # Nil /\ context # Nil /\ SnakeCaseContract(context.company_data)) =>
    LET key_factors == model_result.key_factors
        explanation == model_result.explanation
        data == context.company_data
    IN  /\ Len(key_factors) <= 5
        /\ \A metric \in {"total_esg_risk_score", "environment_risk_score",
                          "controversy_score"} :
             \E i \in 1..Len(key_factors) :
               /\ key_factors[i].value = data[metric]
               /\ key_factors[i].impact = ThresholdImpact(metric, data[metric].n)
        /\ key_factors # <<>>
        /\ \E i \in 1..(Len(explanation) - 1) :
             /\ explanation[i] = "Primary factor: "
             /\ explanation[i + 1] = key_factors[1].feature


\* ---- C30 ----
\* the synthesis stage of this call took the LLM path
LLMPathTaken == SynthesisInvoked /\ is_available(api_key)

\* what the fallback path returns for the news and interpretation results of
\* this call
FallbackPathResult == DiscussionOrchestrator_process("", context, "ok200").val

\* C30: the rule-based fields of the synthesis result do not depend on the LLM:
\* the LLM path returns, for the news and interpretation results of the call,
\* the news_model_alignment, recommendations and overall_risk_assessment the
\* fallback path returns for them, and carries powered_by where the fallback
\* path carries note.
C30_RuleFieldsIndependentOfLLM ==
  LLMPathTaken =>
    /\ final_result # Nil
    /\ final_result.news_model_alignment = FallbackPathResult.news_model_alignment
    /\ final_result.recommendations = FallbackPathResult.recommendations
    /\ final_result.overall_risk_assessment = FallbackPathResult.overall_risk_assessment
    /\ "powered_by" \in DOMAIN final_result /\ "note" \notin DOMAIN final_result
    /\ "note" \in DOMAIN FallbackPathResult /\ "powered_by" \notin DOMAIN FallbackPathResult

=============================================================================
